---- MODULE Spec2Model ----
(***************************************************************************)
(* daisy-days: the documentation engine (DocsCache) of the editor          *)
(* extension (src/src/lib.rs) and of the MCP server (src/src/main.rs), the *)
(* server's line-oriented JSON-RPC dispatch loop (main, handle_request)    *)
(* and the extension's slash commands (run_slash_command).                 *)
(*                                                                         *)
(* Text is modelled as a sequence of one-character strings, so that        *)
(* to_lowercase, trim, contains, lines and split_whitespace are computed   *)
(* and not assumed.                                                        *)
(***************************************************************************)
EXTENDS Integers, Sequences, FiniteSets, TLC

(***************************************************************************)
(* Characters and strings                                                  *)
(***************************************************************************)

\* The white space characters TLA+ has no escape for, written as they are:
\* U+000B (vertical tab), and past the ASCII range U+0085 (next line), U+00A0
\* (no-break space) and U+1680 (ogham space mark), in this order.
VerticalTab == ""
WideBlanks == << "", " ", " " >>

\* The characters of the model, in ascending byte order of their UTF-8 form
\* (str::cmp is bytewise).
AsciiOrder ==
    << "\t", "\n", VerticalTab, "\f", "\r", " ", "#", ",", "-", ".", "/",
       "0", "1", "2", "3", "4", "5", "6", "7", "8", "9", ":",
       "A", "B", "C", "D", "E", "F", "G", "H", "I", "J", "K", "L", "M",
       "N", "O", "P", "Q", "R", "S", "T", "U", "V", "W", "X", "Y", "Z", "_",
       "a", "b", "c", "d", "e", "f", "g", "h", "i", "j", "k", "l", "m",
       "n", "o", "p", "q", "r", "s", "t", "u", "v", "w", "x", "y", "z" >>
    \o WideBlanks

CharCode(c) == CHOOSE i \in 1..Len(AsciiOrder) : AsciiOrder[i] = c

UpperChars ==
    << "A", "B", "C", "D", "E", "F", "G", "H", "I", "J", "K", "L", "M",
       "N", "O", "P", "Q", "R", "S", "T", "U", "V", "W", "X", "Y", "Z" >>

LowerChars ==
    << "a", "b", "c", "d", "e", "f", "g", "h", "i", "j", "k", "l", "m",
       "n", "o", "p", "q", "r", "s", "t", "u", "v", "w", "x", "y", "z" >>

\* char::to_lowercase on the ASCII range
ToLowerChar(c) ==
    IF \E i \in 1..Len(UpperChars) : UpperChars[i] = c
    THEN LowerChars[CHOOSE i \in 1..Len(UpperChars) : UpperChars[i] = c]
    ELSE c

\* str::to_lowercase
ToLowercase(s) == [i \in 1..Len(s) |-> ToLowerChar(s[i])]

\* a tokenizer that also splits at the full stop
IsWhitespaceOrDot(c) ==
    \/ c \in { "\t", "\n", VerticalTab, "\f", "\r", " ", "." }
    \/ \E i \in 1..Len(WideBlanks) : WideBlanks[i] = c

\* char::is_whitespace: the characters with the Unicode property White_Space.
\* Those from U+2000 on (U+2000 to U+200A, U+2028, U+2029, U+202F, U+205F,
\* U+3000) cannot stand in a string of TLA+, and no text of the model holds
\* them.
IsWhitespace(c) ==
    \/ c \in { "\t", "\n", VerticalTab, "\f", "\r", " " }
    \/ \E i \in 1..Len(WideBlanks) : WideBlanks[i] = c

RECURSIVE TrimStart(_)
TrimStart(s) ==
    IF s # << >> /\ IsWhitespace(Head(s)) THEN TrimStart(Tail(s)) ELSE s

RECURSIVE TrimEnd(_)
TrimEnd(s) ==
    IF s # << >> /\ IsWhitespace(s[Len(s)])
    THEN TrimEnd(SubSeq(s, 1, Len(s) - 1))
    ELSE s

\* str::trim
Trim(s) == TrimEnd(TrimStart(s))

\* str::contains(&str): the empty pattern is contained in every string
Contains(hay, needle) ==
    \E i \in 0..(Len(hay) - Len(needle)) :
        SubSeq(hay, i + 1, i + Len(needle)) = needle

\* str::strip_prefix: << TRUE, rest >> when s starts with prefix, << FALSE, << >> >> otherwise
StripPrefix(s, prefix) ==
    IF Len(s) >= Len(prefix) /\ SubSeq(s, 1, Len(prefix)) = prefix
    THEN << TRUE, SubSeq(s, Len(prefix) + 1, Len(s)) >>
    ELSE << FALSE, << >> >>

\* one line of str::lines: a trailing "\r" of the line is dropped
StripCr(l) ==
    IF l # << >> /\ l[Len(l)] = "\r" THEN SubSeq(l, 1, Len(l) - 1) ELSE l

\* str::lines: split at "\n"; a final line without terminator is a line, a
\* final terminator opens no further line
RECURSIVE LinesFrom(_)
LinesFrom(s) ==
    IF s = << >> THEN << >>
    ELSE IF \E i \in 1..Len(s) : s[i] = "\n"
    THEN LET end == CHOOSE i \in 1..Len(s) :
                       s[i] = "\n" /\ \A j \in 1..(i - 1) : s[j] # "\n"
         IN  << StripCr(SubSeq(s, 1, end - 1)) >> \o LinesFrom(SubSeq(s, end + 1, Len(s)))
    ELSE << s >>

Lines(s) == LinesFrom(s)

\* str::split_whitespace: the maximal runs of non-whitespace characters
RECURSIVE WordsFrom(_)
WordsFrom(s) ==
    LET rest == TrimStart(s)
    IN  IF rest = << >> THEN << >>
        ELSE LET end == IF \E i \in 1..Len(rest) : IsWhitespace(rest[i])
                        THEN (CHOOSE i \in 1..Len(rest) :
                                 IsWhitespace(rest[i]) /\ \A j \in 1..(i - 1) : ~IsWhitespace(rest[j])) - 1
                        ELSE Len(rest)
             IN  << SubSeq(rest, 1, end) >> \o WordsFrom(SubSeq(rest, end + 1, Len(rest)))

SplitWhitespace(s) == WordsFrom(s)

\* <[String]>::join
RECURSIVE Join(_, _)
Join(ws, sep) ==
    IF ws = << >> THEN << >>
    ELSE IF Len(ws) = 1 THEN ws[1]
    ELSE ws[1] \o sep \o Join(Tail(ws), sep)

\* str::cmp = Less: bytewise lexicographic order
RECURSIVE StrLess(_, _)
StrLess(a, b) ==
    IF b = << >> THEN FALSE
    ELSE IF a = << >> THEN TRUE
    ELSE IF Head(a) = Head(b) THEN StrLess(Tail(a), Tail(b))
    ELSE CharCode(Head(a)) < CharCode(Head(b))

\* a sort that puts the greatest string first
RECURSIVE SortKeysDescending(_)
SortKeysDescending(S) ==
    IF S = {} THEN << >>
    ELSE LET m == CHOOSE x \in S : \A y \in S \ {x} : StrLess(y, x)
         IN  << m >> \o SortKeysDescending(S \ {m})

\* Vec<String>::sort of a set of distinct strings
RECURSIVE SortKeys(_)
SortKeys(S) ==
    IF S = {} THEN << >>
    ELSE LET m == CHOOSE x \in S : \A y \in S \ {x} : StrLess(x, y)
         IN  << m >> \o SortKeys(S \ {m})

\* usize formatted by "{}"
RECURSIVE DecStr(_)
DecStr(n) ==
    LET d == << "0", "1", "2", "3", "4", "5", "6", "7", "8", "9" >>
    IN  IF n < 10 THEN << d[n + 1] >> ELSE DecStr(n \div 10) \o << d[(n % 10) + 1] >>

\* HashMap::insert
MapInsert(m, k, v) == (k :> v) @@ m

EmptyMap == [x \in {} |-> << >>]

HeadingMarker == << "#", "#", "#", " " >>

(***************************************************************************)
(* DocsCache of the server (main.rs)                                       *)
(***************************************************************************)

\* an entry stored under its lowercased heading, blanks kept
SrvFinalizeUntrimmedKey(st) ==
    IF st.current_component # << >>
    THEN MapInsert(st.components,
                   ToLowercase(st.current_component),
                   Trim(st.current_content))
    ELSE st.components

\* main.rs DocsCache::load, lines 24-26 and 36-38: the entry being built is
\* stored under its trimmed, lowercased heading
SrvFinalize(st) ==
    IF st.current_component # << >>
    THEN MapInsert(st.components,
                   ToLowercase(Trim(st.current_component)),
                   Trim(st.current_content))
    ELSE st.components

\* main.rs DocsCache::load, body of the loop over the lines
SrvLoadLine(st, line) ==
    LET sp == StripPrefix(line, HeadingMarker)
    IN  IF sp[1]
        THEN [ components        |-> SrvFinalize(st),
               current_component |-> sp[2],
               current_content   |-> line \o << "\n" >> ]
        ELSE IF st.current_component # << >>
        THEN [ st EXCEPT !.current_content = @ \o line \o << "\n" >> ]
        ELSE st

\* main.rs DocsCache::load, the loop over the lines: loop.st is the state after
\* the lines read so far, loop.rest the lines still to read
RECURSIVE SrvLoadLines(_)
SrvLoadLines(loop) ==
    IF loop.rest = << >> THEN loop.st
    ELSE SrvLoadLines([ st   |-> SrvLoadLine(loop.st, Head(loop.rest)),
                        rest |-> Tail(loop.rest) ])

\* main.rs DocsCache::load: the components map parsed from the embedded text
SrvLoad(text) ==
    SrvFinalize(SrvLoadLines([ st   |-> [ components        |-> EmptyMap,
                                          current_component |-> << >>,
                                          current_content   |-> << >> ],
                               rest |-> Lines(text) ]))

\* main.rs DocsCache::list_components
SrvListComponents(components) == SortKeys(DOMAIN components)

\* Option<String>
None == [some |-> FALSE, val |-> << >>]
Some(v) == [some |-> TRUE, val |-> v]
UnwrapOr(o, d) == IF o.some THEN o.val ELSE d

\* HashMap::get(..).cloned()
MapGet(m, k) == IF k \in DOMAIN m THEN Some(m[k]) ELSE None

\* a search that looks at the names only
SrvSearchByKeyOnly(components, query) ==
    LET lowered == ToLowercase(query)
        hits == SortKeys({ name \in DOMAIN components : Contains(name, lowered) })
    IN  [ i \in 1..Len(hits) |-> [ key |-> hits[i], body |-> components[hits[i]] ] ]

\* main.rs DocsCache::get_doc
SrvGetDoc(components, name) == MapGet(components, ToLowercase(name))

\* main.rs DocsCache::search: the (name, content) pairs that match, by name ascending
SrvSearch(components, query) ==
    LET lowered == ToLowercase(query)
        hits == SortKeys({ name \in DOMAIN components :
                     Contains(name, lowered) \/ Contains(ToLowercase(components[name]), lowered) })
    IN  [ i \in 1..Len(hits) |-> [ key |-> hits[i], body |-> components[hits[i]] ] ]

(***************************************************************************)
(* DocsCache of the extension (lib.rs)                                     *)
(***************************************************************************)

\* lib.rs load, lines 33 and 50: a lowercased word is indexed when its length
\* exceeds this
MinWordLen == 3

\* lib.rs load, lines 31-36 and 48-53: every kept word of the content gets the
\* key appended to its index list
RECURSIVE IndexWords(_, _, _)
IndexWords(index, ws, key) ==
    IF ws = << >> THEN index
    ELSE LET word_lower == ToLowercase(Head(ws))
             next == IF Len(word_lower) > MinWordLen
                     THEN MapInsert(index, word_lower,
                                    Append(IF word_lower \in DOMAIN index
                                           THEN index[word_lower] ELSE << >>, key))
                     ELSE index
         IN  IndexWords(next, Tail(ws), key)

\* lib.rs load, lines 28-37 and 45-54: store the entry being built and index it
ExtFinalize(st) ==
    IF st.current_component # << >>
    THEN LET key == ToLowercase(Trim(st.current_component))
         IN  [ st EXCEPT !.components = MapInsert(@, key, Trim(st.current_content)),
                         !.index = IndexWords(@, SplitWhitespace(st.current_content), key) ]
    ELSE st

\* lib.rs load, body of the loop over the lines
ExtLoadLine(st, line) ==
    LET sp == StripPrefix(line, HeadingMarker)
    IN  IF sp[1]
        THEN [ ExtFinalize(st) EXCEPT !.current_component = sp[2],
                                      !.current_content = line \o << "\n" >> ]
        ELSE IF st.current_component # << >>
        THEN [ st EXCEPT !.current_content = @ \o line \o << "\n" >> ]
        ELSE st

\* lib.rs load, the loop over the lines: loop.st is the state after the lines
\* read so far, loop.rest the lines still to read
RECURSIVE ExtLoadLines(_)
ExtLoadLines(loop) ==
    IF loop.rest = << >> THEN loop.st
    ELSE ExtLoadLines([ st   |-> ExtLoadLine(loop.st, Head(loop.rest)),
                        rest |-> Tail(loop.rest) ])

\* lib.rs DocsCache::load: components and index parsed from the embedded text
ExtLoad(text) ==
    LET st == ExtFinalize(ExtLoadLines([ st   |-> [ components        |-> EmptyMap,
                                                    index             |-> EmptyMap,
                                                    current_component |-> << >>,
                                                    current_content   |-> << >> ],
                                         rest |-> Lines(text) ]))
    IN  [ components |-> st.components, index |-> st.index ]

\* lib.rs DocsCache::list_components
ExtListComponents(cache) == SortKeys(DOMAIN cache.components)

\* lib.rs DocsCache::get_doc: the empty name is answered None before the lookup
ExtGetDoc(cache, name) ==
    IF name = << >> THEN None ELSE MapGet(cache.components, ToLowercase(name))

\* Vec::contains
InSeq(x, sq) == \E i \in 1..Len(sq) : sq[i] = x

\* a score that counts how often the index list names the entry
RECURSIVE TermScoreCounting(_, _, _)
TermScoreCounting(index, ws, name) ==
    IF ws = << >> THEN 0
    ELSE (IF Head(ws) \in DOMAIN index
          THEN 5 * Cardinality({ i \in 1..Len(index[Head(ws)]) : index[Head(ws)][i] = name })
          ELSE 0)
         + TermScoreCounting(index, Tail(ws), name)

\* lib.rs search, lines 86-92: 5 for every word of the query whose index list
\* holds the entry
RECURSIVE TermScore(_, _, _)
TermScore(index, ws, name) ==
    IF ws = << >> THEN 0
    ELSE (IF Head(ws) \in DOMAIN index /\ InSeq(name, index[Head(ws)]) THEN 5 ELSE 0)
         + TermScore(index, Tail(ws), name)

\* a score without the bonus for the key
ScoreNoKeyBonus(cache, q, name) ==
    (IF Contains(ToLowercase(cache.components[name]), q) THEN 10 ELSE 0)
    + TermScore(cache.index, SplitWhitespace(q), name)

\* lib.rs search, lines 79-92: the score of one entry for the lowercased query
Score(cache, q, name) ==
    (IF Contains(name, q) THEN 100 ELSE 0)
    + (IF Contains(ToLowercase(cache.components[name]), q) THEN 10 ELSE 0)
    + TermScore(cache.index, SplitWhitespace(q), name)

\* a comparator that does not look at the keys
BeforeByScoreOnly(a, b, sc) == sc[a] > sc[b]

\* lib.rs search, line 99, the comparator of sort_by: score descending, then
\* key ascending
Before(a, b, sc) == sc[a] > sc[b] \/ (sc[a] = sc[b] /\ StrLess(a, b))

\* the place of x in a sorted vector: behind every element x is not before
InsertSorted(sorted, x, sc) ==
    LET ahead == Cardinality({ i \in 1..Len(sorted) : ~Before(x, sorted[i], sc) })
    IN  SubSeq(sorted, 1, ahead) \o << x >> \o SubSeq(sorted, ahead + 1, Len(sorted))

\* a sort that ignores the scores
SortByKeyOnly(v, sc) == SortKeys({ v[i] : i \in 1..Len(v) })

\* lib.rs search, line 99: Vec::sort_by, a stable sort of the vector v
RECURSIVE SortByScore(_, _)
SortByScore(v, sc) ==
    IF v = << >> THEN << >>
    ELSE InsertSorted(SortByScore(SubSeq(v, 1, Len(v) - 1), sc), v[Len(v)], sc)

\* Iteration orders of a HashMap with the keys S: the order is not specified,
\* every arrangement of the keys is one
RECURSIVE HashOrders(_)
HashOrders(S) ==
    IF S = {} THEN { << >> }
    ELSE UNION { { << k >> \o rest : rest \in HashOrders(S \ {k}) } : k \in S }

\* Iterator::filter over a vector
RECURSIVE Filter(_, _)
Filter(v, keep) ==
    IF v = << >> THEN << >>
    ELSE Filter(SubSeq(v, 1, Len(v) - 1), keep)
         \o (IF v[Len(v)] \in keep THEN << v[Len(v)] >> ELSE << >>)

\* lib.rs search, line 102
ResultCap == 20

\* no truncation
TakeAll(sq, n) == sq

\* Iterator::take
Take(sq, n) == SubSeq(sq, 1, IF Len(sq) < n THEN Len(sq) ELSE n)

\* lib.rs search, lines 75-96: the keys of the scores map, the entries with a
\* positive score; the empty query returns before the map is made
ScoredKeys(cache, query) ==
    IF query = << >> THEN {}
    ELSE { k \in DOMAIN cache.components : Score(cache, ToLowercase(query), k) > 0 }

\* lib.rs DocsCache::search: (key, body, score) of the best entries; order is
\* the order in which scores.keys() yields the keys (a key without a score
\* in it is passed over)
ExtSearchIn(cache, query, order) ==
    IF query = << >> THEN << >>
    ELSE LET lowered == ToLowercase(query)
             table == [ k \in DOMAIN cache.components |-> Score(cache, lowered, k) ]
             ranked == Take(SortByScore(Filter(order, { k \in DOMAIN table : table[k] > 0 }),
                                        table),
                            ResultCap)
         IN  [ i \in 1..Len(ranked) |->
                 [ key   |-> ranked[i],
                   body  |-> cache.components[ranked[i]],
                   score |-> table[ranked[i]] ] ]

\* lib.rs DocsCache::search as the commands call it, with the keys reaching
\* the sort in ascending order
ExtSearch(cache, query) == ExtSearchIn(cache, query, SortKeys(DOMAIN cache.components))

(***************************************************************************)
(* Generators of the server (main.rs)                                      *)
(***************************************************************************)

\* A generated text: gen names the generator, tag the template it chose, and
\* s, s2 the strings formatted into it; plain text has gen = "text" and the
\* text in s.
Text(str) == [ gen |-> "text", tag |-> "", s |-> str, s2 |-> << >> ]
Html(g, t, a, b) == [ gen |-> g, tag |-> t, s |-> a, s2 |-> b ]

\* main.rs LayoutEngine::generate, the arms of the match
LayoutArms ==
    << [ layout |-> << "s", "a", "a", "s" >>, template |-> "saas_landing" ],
       [ layout |-> << "b", "l", "o", "g" >>, template |-> "blog_layout" ],
       [ layout |-> << "s", "o", "c", "i", "a", "l" >>, template |-> "social_feed" ],
       [ layout |-> << "k", "a", "n", "b", "a", "n" >>, template |-> "kanban_board" ],
       [ layout |-> << "i", "n", "b", "o", "x" >>, template |-> "inbox_layout" ],
       [ layout |-> << "p", "r", "o", "f", "i", "l", "e" >>, template |-> "settings_profile" ],
       [ layout |-> << "d", "o", "c", "s" >>, template |-> "docs_layout" ],
       [ layout |-> << "d", "a", "s", "h", "b", "o", "a", "r", "d" >>, template |-> "dashboard" ],
       [ layout |-> << "a", "u", "t", "h" >>, template |-> "auth_page" ],
       [ layout |-> << "s", "t", "o", "r", "e" >>, template |-> "store_page" ] >>

\* main.rs LayoutEngine::generate: an unknown layout falls back to saas_landing
Generate(layout, title) ==
    IF \E i \in 1..Len(LayoutArms) : LayoutArms[i].layout = layout
    THEN Html("layout",
              LayoutArms[CHOOSE i \in 1..Len(LayoutArms) : LayoutArms[i].layout = layout].template,
              title, << >>)
    ELSE Html("layout", "saas_landing", title, << >>)

\* main.rs IdeaEngine::process_prompt, the keyword tests in the order of the code
PromptGroups ==
    << [ layout |-> << "b", "l", "o", "g" >>,
         words |-> << << "b", "l", "o", "g" >>,
                    << "a", "r", "t", "i", "c", "l", "e" >>,
                    << "n", "e", "w", "s" >> >> ],
       [ layout |-> << "s", "o", "c", "i", "a", "l" >>,
         words |-> << << "s", "o", "c", "i", "a", "l" >>,
                    << "t", "w", "i", "t", "t", "e", "r" >>,
                    << "f", "e", "e", "d" >> >> ],
       [ layout |-> << "k", "a", "n", "b", "a", "n" >>,
         words |-> << << "k", "a", "n", "b", "a", "n" >>,
                    << "t", "r", "e", "l", "l", "o" >>,
                    << "b", "o", "a", "r", "d" >>,
                    << "t", "a", "s", "k" >> >> ],
       [ layout |-> << "i", "n", "b", "o", "x" >>,
         words |-> << << "m", "a", "i", "l" >>,
                    << "i", "n", "b", "o", "x" >>,
                    << "m", "e", "s", "s", "a", "g", "e" >> >> ],
       [ layout |-> << "p", "r", "o", "f", "i", "l", "e" >>,
         words |-> << << "p", "r", "o", "f", "i", "l", "e" >>,
                    << "s", "e", "t", "t", "i", "n", "g", "s" >>,
                    << "a", "c", "c", "o", "u", "n", "t" >> >> ],
       [ layout |-> << "d", "o", "c", "s" >>,
         words |-> << << "d", "o", "c", "s" >>,
                    << "d", "o", "c", "u", "m", "e", "n", "t", "a", "t", "i", "o", "n" >>,
                    << "w", "i", "k", "i" >> >> ],
       [ layout |-> << "s", "a", "a", "s" >>,
         words |-> << << "s", "a", "a", "s" >>,
                    << "s", "t", "a", "r", "t", "u", "p" >>,
                    << "l", "a", "n", "d", "i", "n", "g" >> >> ],
       [ layout |-> << "d", "a", "s", "h", "b", "o", "a", "r", "d" >>,
         words |-> << << "d", "a", "s", "h", "b", "o", "a", "r", "d" >>,
                    << "a", "d", "m", "i", "n" >> >> ] >>

GroupMatches(g, p) == \E i \in 1..Len(g.words) : Contains(p, g.words[i])

GeneratedUiTitle == << "G", "e", "n", "e", "r", "a", "t", "e", "d", " ", "U", "I" >>

\* a process_prompt that tests the dashboard group first
PromptLayoutDashboardFirst(prompt) ==
    LET lowered == ToLowercase(prompt)
        hit == { i \in 1..Len(PromptGroups) : GroupMatches(PromptGroups[i], lowered) }
    IN  IF hit = {} THEN << "s", "a", "a", "s" >>
        ELSE IF Len(PromptGroups) \in hit THEN PromptGroups[Len(PromptGroups)].layout
        ELSE PromptGroups[CHOOSE i \in hit : \A j \in hit : i <= j].layout

\* main.rs IdeaEngine::process_prompt: the layout of the first group that
\* matches the lowercased prompt, saas when none does
PromptLayout(prompt) ==
    LET lowered == ToLowercase(prompt)
        hit == { i \in 1..Len(PromptGroups) : GroupMatches(PromptGroups[i], lowered) }
    IN  IF hit = {} THEN << "s", "a", "a", "s" >>
        ELSE PromptGroups[CHOOSE i \in hit : \A j \in hit : i <= j].layout

ProcessPrompt(prompt) == Generate(PromptLayout(prompt), GeneratedUiTitle)

\* main.rs generate_dashboard, generate_auth, generate_store
GenerateDashboard(title) == Generate(<< "d", "a", "s", "h", "b", "o", "a", "r", "d" >>, title)
GenerateAuth(auth_type) ==
    Generate(<< "a", "u", "t", "h" >>, IF auth_type = << "l", "o", "g", "i", "n" >> THEN << "L", "o", "g", "i", "n" >> ELSE << "S", "i", "g", "n", " ", "U", "p" >>)
GenerateStore(page) == Generate(<< "s", "t", "o", "r", "e" >>, page)

\* main.rs get_script
GetScript(component) ==
    IF component = << "m", "o", "d", "a", "l" >> THEN Html("script", "modal", << >>, << >>)
    ELSE IF component = << "d", "r", "a", "w", "e", "r" >> THEN Html("script", "drawer", << >>, << >>)
    ELSE Html("script", "none", << >>, << >>)

\* main.rs ConceptEngine::new: the keys of the concepts map
ConceptKeys == { << "g", "l", "a", "s", "s", "m", "o", "r", "p", "h", "i", "s", "m" >> }

\* main.rs ConceptEngine::get_concept formatted by "{:?}"
GetConcept(query) ==
    IF ToLowercase(query) \in ConceptKeys
    THEN Html("concept", "Some", ToLowercase(query), << >>)
    ELSE Html("concept", "None", << >>, << >>)

\* main.rs ConceptEngine::list_concepts
ListConcepts == SortKeys(ConceptKeys)

(***************************************************************************)
(* JSON-RPC messages of the server (main.rs)                               *)
(***************************************************************************)

\* A JSON scalar as it stands in a message: a member that is absent, null, a
\* number or a string.
JAbsent == [ t |-> "absent", n |-> 0, s |-> "" ]
JNull == [ t |-> "null", n |-> 0, s |-> "" ]
JNum(k) == [ t |-> "num", n |-> k, s |-> "" ]
JStr(str) == [ t |-> "str", n |-> 0, s |-> str ]

\* Option<Value>
NoValue == [ some |-> FALSE, val |-> JNull ]
SomeValue(v) == [ some |-> TRUE, val |-> v ]

\* A member of the "arguments" object: a string (its text in v) or a number
ArgStr(str) == [ t |-> "str", v |-> str ]
ArgNum == [ t |-> "num", v |-> << >> ]

\* The "arguments" member: absent, not an object, or an object with members
NoArgs == [ t |-> "absent", fields |-> EmptyMap ]
ScalarArgs == [ t |-> "str", fields |-> EmptyMap ]
ObjArgs(f) == [ t |-> "obj", fields |-> f ]

\* The "params" member: absent, null, a scalar, or an object whose members
\* "name" and "arguments" are the ones the server reads
AbsentParams == [ t |-> "absent", name |-> JAbsent, arguments |-> NoArgs ]
NullParams == [ t |-> "null", name |-> JAbsent, arguments |-> NoArgs ]
ScalarParams == [ t |-> "str", name |-> JAbsent, arguments |-> NoArgs ]
ObjParams(nm, ar) == [ t |-> "obj", name |-> nm, arguments |-> ar ]

\* the "jsonrpc" member of a request
Version == JStr("2.0")

\* One line of input after the trims (main.rs 759-760).  kind tells what the
\* line holds:
\*   "blank"   nothing;
\*   "text"    the characters raw, which after their leading blanks begin
\*             neither a JSON object nor a JSON array nor a number (a digit or
\*             "-"), and hold no backslash; raw begins or ends with a blank
\*             only when NUL characters stood around it in the input
\*             (main.rs 759 takes the blanks off the ends, 760 the NULs);
\*   "object"  a JSON object with those of the members jsonrpc, method, params
\*             and id that are not absent, in this order and without blanks;
\*             dup names a member that is written twice in a row with the same
\*             value, "" when none is;
\*   "array"   a JSON array of the values jsonrpc, method, params and id, in
\*             this order and without blanks, that ends before the first
\*             absent one.
BlankLine ==
    [ kind |-> "blank", raw |-> << >>, jsonrpc |-> JAbsent, method |-> JAbsent,
      params |-> AbsentParams, id |-> JAbsent, dup |-> "" ]
TextLine(chars) ==
    [ kind |-> "text", raw |-> chars, jsonrpc |-> JAbsent, method |-> JAbsent,
      params |-> AbsentParams, id |-> JAbsent, dup |-> "" ]
ObjectLine(v, m, p, i) ==
    [ kind |-> "object", raw |-> << >>, jsonrpc |-> v, method |-> m, params |-> p,
      id |-> i, dup |-> "" ]
DupLine(v, m, p, i, twice) ==
    [ kind |-> "object", raw |-> << >>, jsonrpc |-> v, method |-> m, params |-> p,
      id |-> i, dup |-> twice ]
ArrayLine(v, m, p, i) ==
    [ kind |-> "array", raw |-> << >>, jsonrpc |-> v, method |-> m, params |-> p,
      id |-> i, dup |-> "" ]

\* main.rs JsonRpcRequest (lines 715-721) decoded by serde's derived
\* Deserialize: the struct is read from an object or from an array of its four
\* values; the String members jsonrpc and method are required and must be
\* strings; no member of an object may be given twice; an array must hold all
\* four values.
Decodes(line) ==
    /\ line.kind \in { "object", "array" }
    /\ line.jsonrpc.t = "str"
    /\ line.method.t = "str"
    /\ line.kind = "object" => line.dup = ""
    /\ line.kind = "array" => line.params.t # "absent" /\ line.id.t # "absent"

\* The error serde_json::from_str reports (main.rs 763, 770), written by
\* Display as the message followed by " at line 1 column " and the column.
\* what is the message; its "{}" stands for arg in the quotes serde writes
\* around it: quote is "double" for double quotes, "backtick" for backticks,
\* "" for none.
SerdeError(what, a, q, col) == [ what |-> what, arg |-> a, quote |-> q, column |-> col ]
NoSerdeError == SerdeError("", "", "", 0)

\* a sequence of characters as one string
RECURSIVE Collect(_)
Collect(chars) == IF chars = << >> THEN "" ELSE chars[1] \o Collect(Tail(chars))

\* the literals serde_json reads letter by letter, by their first letter
Idents ==
    [ n |-> << "n", "u", "l", "l" >>,
      t |-> << "t", "r", "u", "e" >>,
      f |-> << "f", "a", "l", "s", "e" >> ]

\* serde_json on a text that begins like null, true or false: the literal is
\* compared letter by letter, and a complete literal is no struct
IdentError(raw) ==
    LET ident == Idents[raw[1]]
        stops == { i \in 2..Len(ident) : i > Len(raw) \/ raw[i] # ident[i] }
    IN  IF stops = {}
        THEN IF raw[1] = "n"
             THEN SerdeError("invalid type: null, expected struct JsonRpcRequest", "", "", Len(ident))
             ELSE SerdeError("invalid type: boolean {}, expected struct JsonRpcRequest",
                             Collect(ident), "backtick", Len(ident))
        ELSE LET stop == CHOOSE i \in stops : \A j \in stops : i <= j
             IN  IF stop > Len(raw)
                 THEN SerdeError("EOF while parsing a value", "", "", Len(raw))
                 ELSE SerdeError("expected ident", "", "", stop)

\* The number of bytes of a text in UTF-8, by which serde_json counts the
\* column of an error: U+0085 and U+00A0 take two bytes, U+1680 three, every
\* other character of the model one.
RECURSIVE ByteLen(_)
ByteLen(chars) ==
    IF chars = << >> THEN 0
    ELSE (IF Head(chars) = WideBlanks[3] THEN 3
          ELSE IF Head(chars) \in { WideBlanks[1], WideBlanks[2] } THEN 2
          ELSE 1) + ByteLen(Tail(chars))

\* A text as Debug writes it between the double quotes (serde's
\* Unexpected::Str in the message of an error): a character that is not
\* printable is written as an escape, the others as they are.
RECURSIVE EscapeDebug(_)
EscapeDebug(chars) ==
    IF chars = << >> THEN ""
    ELSE (CASE Head(chars) = "\t" -> "\\t"
            [] Head(chars) = "\n" -> "\\n"
            [] Head(chars) = "\r" -> "\\r"
            [] Head(chars) = "\"" -> "\\\""
            [] Head(chars) = VerticalTab -> "\\u{b}"
            [] Head(chars) = "\f" -> "\\u{c}"
            [] Head(chars) = WideBlanks[1] -> "\\u{85}"
            [] Head(chars) = WideBlanks[2] -> "\\u{a0}"
            [] Head(chars) = WideBlanks[3] -> "\\u{1680}"
            [] OTHER -> Head(chars)) \o EscapeDebug(Tail(chars))

\* the characters below U+0020 that a text of the model can hold
ControlChars == { "\t", "\n", VerticalTab, "\f", "\r" }

\* serde_json on a text that begins with a double quote (and holds no
\* backslash): the string is read up to its closing quote or to the first
\* control character, which may not stand in a string.  A string that is not
\* closed is an error, and a string is no struct: the message quotes it as
\* Debug writes it.  The column is the number of bytes read.
StringError(raw) ==
    LET stops == { i \in 2..Len(raw) : raw[i] = "\"" \/ raw[i] \in ControlChars }
    IN  IF stops = {}
        THEN SerdeError("EOF while parsing a string", "", "", ByteLen(raw))
        ELSE LET stop == CHOOSE i \in stops : \A j \in stops : i <= j
             IN  IF raw[stop] = "\""
                 THEN SerdeError("invalid type: string {}, expected struct JsonRpcRequest",
                                 EscapeDebug(SubSeq(raw, 2, stop - 1)), "double",
                                 ByteLen(SubSeq(raw, 1, stop)))
                 ELSE SerdeError("control character (\\u0000-\\u001F) found while parsing a string",
                                 "", "", ByteLen(SubSeq(raw, 1, stop)))

\* the number of blanks a text begins with: the characters serde_json skips
\* before a value (space, line feed, tab, carriage return), one byte each
RECURSIVE LeadingBlanks(_)
LeadingBlanks(chars) ==
    IF chars # << >> /\ Head(chars) \in { " ", "\n", "\t", "\r" }
    THEN 1 + LeadingBlanks(Tail(chars))
    ELSE 0

\* serde_json on a text line: the leading blanks are skipped and count in
\* the column of the error found in the value after them; a line of blanks
\* only ends where a value is expected
TextError(raw) ==
    LET blanks == LeadingBlanks(raw)
        value == SubSeq(raw, blanks + 1, Len(raw))
        found == CASE value[1] = "\"" -> StringError(value)
                   [] value[1] \in { "n", "t", "f" } -> IdentError(value)
                   [] OTHER -> SerdeError("expected value", "", "", 1)
    IN  IF value = << >> THEN SerdeError("EOF while parsing a value", "", "", Len(raw))
        ELSE [ found EXCEPT !.column = @ + blanks ]

\* The number of bytes of a value in the text of a line; an absent value
\* has none.  The strings given to jsonrpc, method, name and id hold ASCII
\* characters only, one byte each.  A value the model keeps no text of is
\* written with one character: a number among the arguments as one digit, a
\* string in the place of params or arguments as one letter between quotes.
ScalarLen(v) ==
    CASE v.t = "absent" -> 0
      [] v.t = "null" -> 4
      [] v.t = "num" -> Len(DecStr(v.n))
      [] v.t = "str" -> Len(v.s) + 2

\* a member of an object: the name between quotes, a colon, the value
MemberLen(name, len) == IF len = 0 THEN 0 ELSE Len(name) + 3 + len

\* the members that are there, with the commas between them
RECURSIVE MembersLen(_)
MembersLen(lens) ==
    IF lens = << >> THEN 0
    ELSE IF Head(lens) = 0 THEN MembersLen(Tail(lens))
    ELSE Head(lens) + (IF MembersLen(Tail(lens)) = 0 THEN 0 ELSE 1 + MembersLen(Tail(lens)))

\* an object: braces around its members
ObjectLen(lens) == 2 + MembersLen(lens)

\* the members of "arguments" named by keys; a string is written as its
\* characters between quotes, with no escape, and counts by its bytes
RECURSIVE FieldLens(_, _)
FieldLens(fields, keys) ==
    IF keys = {} THEN << >>
    ELSE LET k == CHOOSE x \in keys : TRUE
         IN  << MemberLen(k, IF fields[k].t = "str" THEN ByteLen(fields[k].v) + 2 ELSE 1) >>
               \o FieldLens(fields, keys \ {k})

ArgsLen(ar) ==
    CASE ar.t = "absent" -> 0
      [] ar.t = "str" -> 3
      [] ar.t = "obj" -> ObjectLen(FieldLens(ar.fields, DOMAIN ar.fields))

ParamsLen(p) ==
    CASE p.t = "absent" -> 0
      [] p.t = "null" -> 4
      [] p.t = "str" -> 3
      [] p.t = "obj" ->
           ObjectLen(<< MemberLen("name", ScalarLen(p.name)),
                        MemberLen("arguments", ArgsLen(p.arguments)) >>)

\* the members of a request in the order of the struct, and the length of the
\* value a line gives to one of them
MemberNames == << "jsonrpc", "method", "params", "id" >>

ValueLen(line, name) ==
    CASE name = "jsonrpc" -> ScalarLen(line.jsonrpc)
      [] name = "method" -> ScalarLen(line.method)
      [] name = "params" -> ParamsLen(line.params)
      [] name = "id" -> ScalarLen(line.id)

\* a String member (jsonrpc, method) given a number or null: the error names
\* the value and the column after it; NoSerdeError for every other member
TypeError(line, name, valueEnd) ==
    LET v == IF name = "jsonrpc" THEN line.jsonrpc ELSE line.method
    IN  IF name \in { "jsonrpc", "method" } /\ v.t = "num"
        THEN SerdeError("invalid type: integer {}, expected a string", ToString(v.n),
                        "backtick", valueEnd)
        ELSE IF name \in { "jsonrpc", "method" } /\ v.t = "null"
        THEN SerdeError("invalid type: null, expected a string", "", "", valueEnd)
        ELSE NoSerdeError

\* serde's visit_map from member i on, after `read` characters of the line: a
\* value of the wrong type ends the walk after the value, the second key of a
\* member given twice after that key; at the closing brace the String members
\* not given are missed, jsonrpc before method.
RECURSIVE ObjectError(_, _, _)
ObjectError(line, i, read) ==
    IF i > Len(MemberNames)
    THEN IF line.jsonrpc.t = "absent"
         THEN SerdeError("missing field {}", "jsonrpc", "backtick", read + 1)
         ELSE IF line.method.t = "absent"
         THEN SerdeError("missing field {}", "method", "backtick", read + 1)
         ELSE NoSerdeError
    ELSE IF ValueLen(line, MemberNames[i]) = 0
    THEN ObjectError(line, i + 1, read)
    ELSE LET keyEnd == read + (IF read > 1 THEN 1 ELSE 0) + Len(MemberNames[i]) + 2
             valEnd == keyEnd + 1 + ValueLen(line, MemberNames[i])
         IN  IF TypeError(line, MemberNames[i], valEnd) # NoSerdeError
             THEN TypeError(line, MemberNames[i], valEnd)
             ELSE IF line.dup = MemberNames[i]
             THEN SerdeError("duplicate field {}", MemberNames[i], "backtick",
                             valEnd + 1 + Len(MemberNames[i]) + 2)
             ELSE ObjectError(line, i + 1, valEnd)

\* serde's visit_seq from element i on, after `read` characters of the line:
\* an array that ends before its fourth value has an invalid length, reported
\* after the closing bracket.
RECURSIVE ArrayError(_, _, _)
ArrayError(line, i, read) ==
    IF i > Len(MemberNames) THEN NoSerdeError
    ELSE IF ValueLen(line, MemberNames[i]) = 0
    THEN SerdeError("invalid length {}, expected struct JsonRpcRequest with 4 elements",
                    ToString(i - 1), "", read + 1)
    ELSE LET elemEnd == read + (IF read > 1 THEN 1 ELSE 0) + ValueLen(line, MemberNames[i])
         IN  IF TypeError(line, MemberNames[i], elemEnd) # NoSerdeError
             THEN TypeError(line, MemberNames[i], elemEnd)
             ELSE ArrayError(line, i + 1, elemEnd)

\* serde_json::from_str::<JsonRpcRequest> (main.rs 763): the error of a line
\* that is not blank, NoSerdeError when it decodes
FromStrError(line) ==
    CASE line.kind = "text" -> TextError(line.raw)
      [] line.kind = "object" -> ObjectError(line, 1, 1)
      [] line.kind = "array" -> ArrayError(line, 1, 1)

DecodeOption(v) == IF v.t \in {"absent", "null"} THEN NoValue ELSE SomeValue(v)

DecodeRequest(line) ==
    [ method |-> line.method.s,
      params |-> [ some |-> line.params.t \notin {"absent", "null"}, val |-> line.params ],
      id     |-> DecodeOption(line.id) ]

\* params["name"].as_str().unwrap_or("")
ParamName(params) ==
    IF params.t = "obj" /\ params.name.t = "str" THEN params.name.s ELSE ""

\* params["arguments"].as_object()
ParamArgs(params) ==
    IF params.t = "obj" /\ params.arguments.t = "obj"
    THEN [ some |-> TRUE, val |-> params.arguments.fields ]
    ELSE [ some |-> FALSE, val |-> EmptyMap ]

\* args.and_then(|a| a.get(key)).and_then(|v| v.as_str()).unwrap_or(default)
ArgOr(args, key, default) ==
    IF args.some /\ key \in DOMAIN args.val /\ args.val[key].t = "str"
    THEN args.val[key].v
    ELSE default

\* main.rs handle_request, "tools/list": name and required members of the catalog
ToolCatalog ==
    << [ name |-> "daisyui_idea_to_ui", required |-> {"prompt"} ],
       [ name |-> "daisyui_scaffold_layout", required |-> {"layout"} ],
       [ name |-> "daisyui_list_components", required |-> {} ],
       [ name |-> "daisyui_get_docs", required |-> {"component"} ],
       [ name |-> "daisyui_search", required |-> {} ],
       [ name |-> "daisyui_get_concept", required |-> {} ],
       [ name |-> "daisyui_list_concepts", required |-> {} ],
       [ name |-> "daisyui_scaffold_dashboard", required |-> {} ],
       [ name |-> "daisyui_scaffold_auth", required |-> {} ],
       [ name |-> "daisyui_scaffold_store", required |-> {} ],
       [ name |-> "daisyui_create_chart", required |-> {} ],
       [ name |-> "daisyui_create_table", required |-> {} ],
       [ name |-> "daisyui_generate_theme", required |-> {} ],
       [ name |-> "daisyui_scaffold_form", required |-> {} ],
       [ name |-> "daisyui_get_script", required |-> {} ] >>

ListedTools == { ToolCatalog[i].name : i \in 1..Len(ToolCatalog) }

\* JsonRpcError; the message is a fixed text followed by a formatted argument.
\* The argument of the parse error of main.rs 772 is an error of serde: cause.
Error(c, text, a) ==
    [ code |-> c, message |-> [ text |-> text, arg |-> a, cause |-> NoSerdeError ] ]
NoError == Error(0, "", "")

\* A result value: kind tells initialize, "OK", the tool catalog or a content
\* list with one text
ResInitialize == [ kind |-> "initialize", tools |-> << >>, content |-> Text(<< >>) ]
ResOk == [ kind |-> "OK", tools |-> << >>, content |-> Text(<< >>) ]
ResToolsShort ==
    [ kind |-> "tools", tools |-> SubSeq(ToolCatalog, 1, Len(ToolCatalog) - 1),
      content |-> Text(<< >>) ]
ResTools == [ kind |-> "tools", tools |-> ToolCatalog, content |-> Text(<< >>) ]
ResContent(c) == [ kind |-> "content", tools |-> << >>, content |-> c ]
NoResult == [ kind |-> "none", tools |-> << >>, content |-> Text(<< >>) ]

\* Result<Value, JsonRpcError>
Ok(v) == [ ok |-> TRUE, val |-> v, err |-> NoError ]
Err(e) == [ ok |-> FALSE, val |-> NoResult, err |-> e ]

(***************************************************************************)
(* handle_request (main.rs)                                                *)
(***************************************************************************)

NotFoundText == << "N", "o", "t", " ", "f", "o", "u", "n", "d" >>
FoundPrefix == << "F", "o", "u", "n", "d", " " >>
CommaSep == << ",", " " >>

\* main.rs handle_request, the arm "daisyui_get_docs" (lines 846-849): a missing
\* component is looked up as "", a miss is answered with the text "Not found"
GetDocsTool(args, components) ==
    Ok(ResContent(Text(UnwrapOr(SrvGetDoc(components, ArgOr(args, "component", << >>)),
                                NotFoundText))))

\* main.rs handle_request, the arm "daisyui_search" (lines 850-853)
SearchTool(args, components) ==
    Ok(ResContent(Text(FoundPrefix
                       \o DecStr(Len(SrvSearch(components, ArgOr(args, "query", << >>)))))))

\* main.rs handle_request, line 894: the answer to a name no arm matches
UnknownToolWrongKind(name) == Err(Error(-32602, "Invalid params", name))

UnknownTool(name) == Err(Error(-32601, "Unknown tool: ", name))

\* main.rs handle_request, line 897: "tools/call" without params
MissingParams == Err(Error(-32602, "Missing params", ""))

\* main.rs handle_request, line 900: the answer to a method no arm matches
MethodNotFoundAccepted == Ok(ResOk)

MethodNotFound == Err(Error(-32601, "Method not found", ""))

\* main.rs handle_request, the match on the tool name (lines 834-895)
CallTool(name, args, components) ==
    CASE name = "daisyui_idea_to_ui" ->
           Ok(ResContent(ProcessPrompt(ArgOr(args, "prompt", << >>))))
      [] name = "daisyui_scaffold_layout" ->
           Ok(ResContent(Generate(ArgOr(args, "layout", << "s", "a", "a", "s" >>),
                                  ArgOr(args, "title", << "M", "y", " ", "A", "p", "p" >>))))
      [] name = "daisyui_list_components" ->
           Ok(ResContent(Text(Join(SrvListComponents(components), CommaSep))))
      [] name = "daisyui_get_docs" -> GetDocsTool(args, components)
      [] name = "daisyui_search" -> SearchTool(args, components)
      [] name = "daisyui_get_concept" ->
           Ok(ResContent(GetConcept(ArgOr(args, "concept", << >>))))
      [] name = "daisyui_list_concepts" ->
           Ok(ResContent(Text(Join(ListConcepts, CommaSep))))
      [] name = "daisyui_scaffold_dashboard" ->
           Ok(ResContent(GenerateDashboard(ArgOr(args, "title", << "D", "a", "s", "h" >>))))
      [] name = "daisyui_scaffold_auth" ->
           Ok(ResContent(GenerateAuth(ArgOr(args, "type", << "l", "o", "g", "i", "n" >>))))
      [] name = "daisyui_scaffold_store" ->
           Ok(ResContent(GenerateStore(ArgOr(args, "page", << "h", "o", "m", "e" >>))))
      [] name = "daisyui_create_chart" ->
           Ok(ResContent(Html("chart", "", ArgOr(args, "type", << "b", "a", "r" >>),
                              ArgOr(args, "id", << "c", "1" >>))))
      [] name = "daisyui_create_table" ->
           Ok(ResContent(Html("table", "", << >>, << >>)))
      [] name = "daisyui_generate_theme" ->
           Ok(ResContent(Html("theme", "", ArgOr(args, "name", << "m", "y", "t", "h", "e", "m", "e" >>),
                              ArgOr(args, "primary", << "#", "0", "0", "0" >>) \o ArgOr(args, "base", << "#", "f", "f", "f" >>))))
      [] name = "daisyui_scaffold_form" ->
           Ok(ResContent(Html("form", "", ArgOr(args, "title", << "F", "o", "r", "m" >>), << >>)))
      [] name = "daisyui_get_script" ->
           Ok(ResContent(GetScript(ArgOr(args, "component", << >>))))
      [] OTHER -> UnknownTool(name)

\* main.rs handle_request, the match on the method (lines 785-901)
Dispatch(req, components) ==
    CASE req.method = "initialize" -> Ok(ResInitialize)
      [] req.method = "notifications/initialized" -> Ok(ResOk)
      [] req.method = "tools/list" -> Ok(ResTools)
      [] req.method = "tools/call" ->
           IF req.params.some
           THEN CallTool(ParamName(req.params.val), ParamArgs(req.params.val), components)
           ELSE MissingParams
      [] OTHER -> MethodNotFound

\* main.rs handle_request: the JsonRpcResponse built from the outcome (lines 903-906)
HandleRequest(req, components) ==
    LET outcome == Dispatch(req, components)
    IN  [ result |-> [ some |-> outcome.ok, val |-> outcome.val ],
          error  |-> [ some |-> ~outcome.ok, val |-> outcome.err ],
          id     |-> req.id ]

\* a serializer that skips no member
SerializeAll(res) ==
    [ json    |-> TRUE,
      members |-> {"jsonrpc", "result", "error", "id"},
      result  |-> IF res.result.some THEN res.result.val ELSE NoResult,
      error   |-> IF res.error.some THEN res.error.val ELSE NoError,
      id      |-> IF res.id.some THEN res.id.val ELSE JNull ]

\* serde_json::to_string of a JsonRpcResponse (lines 723-731): result and error
\* are skipped when None, id is always written, None as null.  A line written
\* is a record: json tells whether the line is a JSON text, members is the set
\* of member names of the JSON object written.
Serialize(res) ==
    [ json    |-> TRUE,
      members |-> {"jsonrpc", "id"}
                    \cup (IF res.result.some THEN {"result"} ELSE {})
                    \cup (IF res.error.some THEN {"error"} ELSE {}),
      result  |-> IF res.result.some THEN res.result.val ELSE NoResult,
      error   |-> IF res.error.some THEN res.error.val ELSE NoError,
      id      |-> IF res.id.some THEN res.id.val ELSE JNull ]

\* main.rs main, line 772: the line written when a message does not decode.
\* println! sets the text of serde's error into the message as it is, without
\* escaping it: a message that quotes a string of the input holds double
\* quotes of its own, and the line written is no JSON text and has no members.
ParseErrorLine(line) ==
    LET e == FromStrError(line)
    IN  [ json    |-> e.quote # "double",
          members |-> IF e.quote # "double" THEN {"jsonrpc", "error", "id"} ELSE {},
          result  |-> NoResult,
          error   |-> [ code |-> -32700,
                        message |-> [ text |-> "Parse error: ", arg |-> "", cause |-> e ] ],
          id      |-> JNull ]

(***************************************************************************)
(* Slash commands of the extension (lib.rs)                                *)
(***************************************************************************)

Space == << " " >>

\* A text made by format!: fixed is the format string and args the strings
\* formatted into its "{}", in order.  A format string that sets generated html
\* in a code fence has its last "{}" filled by html, and fence names the
\* language of the fence: three backticks and the language on a line before
\* the html, three backticks on a line after it (a backtick cannot stand in a
\* string of TLA+, so the fence is named and not spelled in fixed).
Fmt(fixed, as) == [ fixed |-> fixed, args |-> as, fence |-> "", html |-> Text(<< >>) ]
FmtFenced(fixed, as, lang, h) == [ fixed |-> fixed, args |-> as, fence |-> lang, html |-> h ]

\* Result<SlashCommandOutput, String>: for Ok, text is the output text and
\* sections the number of its sections; for Err, text is the message.
CmdOk(t, n) == [ ok |-> TRUE, text |-> t, sections |-> n ]
CmdErr(t) == [ ok |-> FALSE, text |-> t, sections |-> 0 ]

\* lib.rs DesignConcept (lines 117-123)
DesignConcept(n, d, c, sg, sn) ==
    [ name |-> n, description |-> d, classes |-> c, suggestion |-> sg, snippet |-> sn ]

\* lib.rs ConceptEngine::new (lines 143-208): the concepts map
ExtConcepts ==
    (<< "g", "l", "a", "s", "s", "m", "o", "r", "p", "h", "i", "s", "m" >> :>
       DesignConcept(<< "G", "l", "a", "s", "s", "m", "o", "r", "p", "h", "i", "s", "m" >>,
                     << "F", "r", "o", "s", "t", "e", "d", " ", "g", "l", "a", "s", "s", " ", "a", "e", "s", "t", "h", "e", "t", "i", "c", " ", "w", "i", "t", "h", " ", "t", "r", "a", "n", "s", "p", "a", "r", "e", "n", "c", "y", " ", "a", "n", "d", " ", "b", "l", "u", "r", " ", "e", "f", "f", "e", "c", "t", "s" >>,
                     << << "g", "l", "a", "s", "s" >>, << "b", "a", "c", "k", "d", "r", "o", "p", "-", "b", "l", "u", "r" >> >>,
                     << "A", "p", "p", "l", "y", " ", "g", "l", "a", "s", "s", " ", "c", "l", "a", "s", "s", " ", "t", "o", " ", "c", "a", "r", "d", "s", " ", "a", "n", "d", " ", "m", "o", "d", "a", "l", "s", " ", "f", "o", "r", " ", "d", "e", "p", "t", "h" >>,
                     << "<", "d", "i", "v", " ", "c", "l", "a", "s", "s", "=", "\"", "c", "a", "r", "d", " ", "g", "l", "a", "s", "s", " ", "w", "-", "9", "6", " ", "s", "h", "a", "d", "o", "w", "-", "x", "l", "\"", ">", "<", "d", "i", "v", " ", "c", "l", "a", "s", "s", "=", "\"", "c", "a", "r", "d", "-", "b", "o", "d", "y", "\"", ">", "C", "o", "n", "t", "e", "n", "t", "<", "/", "d", "i", "v", ">", "<", "/", "d", "i", "v", ">" >>))
    @@ (<< "n", "e", "u", "m", "o", "r", "p", "h", "i", "s", "m" >> :>
       DesignConcept(<< "N", "e", "u", "m", "o", "r", "p", "h", "i", "s", "m" >>,
                     << "S", "o", "f", "t", " ", "s", "h", "a", "d", "o", "w", "s", " ", "c", "r", "e", "a", "t", "i", "n", "g", " ", "e", "x", "t", "r", "u", "d", "e", "d", " ", "s", "u", "r", "f", "a", "c", "e", " ", "e", "f", "f", "e", "c", "t" >>,
                     << << "s", "h", "a", "d", "o", "w", "-", "l", "g" >>, << "b", "g", "-", "b", "a", "s", "e", "-", "2", "0", "0" >> >>,
                     << "C", "o", "m", "b", "i", "n", "e", " ", "s", "o", "f", "t", " ", "s", "h", "a", "d", "o", "w", "s", " ", "w", "i", "t", "h", " ", "s", "u", "b", "t", "l", "e", " ", "g", "r", "a", "d", "i", "e", "n", "t", "s" >>,
                     << "<", "b", "u", "t", "t", "o", "n", " ", "c", "l", "a", "s", "s", "=", "\"", "b", "t", "n", " ", "s", "h", "a", "d", "o", "w", "-", "l", "g", " ", "b", "g", "-", "b", "a", "s", "e", "-", "2", "0", "0", "\"", ">", "B", "u", "t", "t", "o", "n", "<", "/", "b", "u", "t", "t", "o", "n", ">" >>))
    @@ (<< "d", "a", "r", "k", "m", "o", "d", "e" >> :>
       DesignConcept(<< "D", "a", "r", "k", " ", "M", "o", "d", "e" >>,
                     << "D", "a", "r", "k", " ", "c", "o", "l", "o", "r", " ", "s", "c", "h", "e", "m", "e", " ", "w", "i", "t", "h", " ", "h", "i", "g", "h", " ", "c", "o", "n", "t", "r", "a", "s", "t" >>,
                     << << "b", "g", "-", "b", "a", "s", "e", "-", "1", "0", "0" >>, << "t", "e", "x", "t", "-", "b", "a", "s", "e", "-", "c", "o", "n", "t", "e", "n", "t" >> >>,
                     << "U", "s", "e", " ", "d", "a", "t", "a", "-", "t", "h", "e", "m", "e", " ", "a", "t", "t", "r", "i", "b", "u", "t", "e", " ", "t", "o", " ", "t", "o", "g", "g", "l", "e", " ", "t", "h", "e", "m", "e", "s" >>,
                     << "<", "h", "t", "m", "l", " ", "d", "a", "t", "a", "-", "t", "h", "e", "m", "e", "=", "\"", "d", "a", "r", "k", "\"", ">", "<", "b", "o", "d", "y", " ", "c", "l", "a", "s", "s", "=", "\"", "b", "g", "-", "b", "a", "s", "e", "-", "1", "0", "0", " ", "t", "e", "x", "t", "-", "b", "a", "s", "e", "-", "c", "o", "n", "t", "e", "n", "t", "\"", ">", "C", "o", "n", "t", "e", "n", "t", "<", "/", "b", "o", "d", "y", ">", "<", "/", "h", "t", "m", "l", ">" >>))
    @@ (<< "g", "r", "a", "d", "i", "e", "n", "t" >> :>
       DesignConcept(<< "G", "r", "a", "d", "i", "e", "n", "t", "s" >>,
                     << "C", "o", "l", "o", "r", " ", "t", "r", "a", "n", "s", "i", "t", "i", "o", "n", "s", " ", "f", "o", "r", " ", "v", "i", "s", "u", "a", "l", " ", "d", "e", "p", "t", "h" >>,
                     << << "b", "g", "-", "g", "r", "a", "d", "i", "e", "n", "t", "-", "t", "o", "-", "r" >>, << "f", "r", "o", "m", "-", "p", "r", "i", "m", "a", "r", "y" >>, << "t", "o", "-", "s", "e", "c", "o", "n", "d", "a", "r", "y" >> >>,
                     << "U", "s", "e", " ", "g", "r", "a", "d", "i", "e", "n", "t", "s", " ", "s", "p", "a", "r", "i", "n", "g", "l", "y", " ", "o", "n", " ", "h", "e", "r", "o", " ", "s", "e", "c", "t", "i", "o", "n", "s", " ", "a", "n", "d", " ", "C", "T", "A", "s" >>,
                     << "<", "d", "i", "v", " ", "c", "l", "a", "s", "s", "=", "\"", "b", "g", "-", "g", "r", "a", "d", "i", "e", "n", "t", "-", "t", "o", "-", "r", " ", "f", "r", "o", "m", "-", "p", "r", "i", "m", "a", "r", "y", " ", "t", "o", "-", "s", "e", "c", "o", "n", "d", "a", "r", "y", " ", "p", "-", "8", "\"", ">", "H", "e", "r", "o", "<", "/", "d", "i", "v", ">" >>))
    @@ (<< "s", "k", "e", "l", "e", "t", "o", "n" >> :>
       DesignConcept(<< "S", "k", "e", "l", "e", "t", "o", "n", " ", "L", "o", "a", "d", "i", "n", "g" >>,
                     << "P", "l", "a", "c", "e", "h", "o", "l", "d", "e", "r", " ", "U", "I", " ", "w", "h", "i", "l", "e", " ", "c", "o", "n", "t", "e", "n", "t", " ", "l", "o", "a", "d", "s" >>,
                     << << "s", "k", "e", "l", "e", "t", "o", "n" >> >>,
                     << "U", "s", "e", " ", "s", "k", "e", "l", "e", "t", "o", "n", " ", "c", "l", "a", "s", "s", " ", "o", "n", " ", "e", "l", "e", "m", "e", "n", "t", "s", " ", "f", "o", "r", " ", "l", "o", "a", "d", "i", "n", "g", " ", "s", "t", "a", "t", "e" >>,
                     << "<", "d", "i", "v", " ", "c", "l", "a", "s", "s", "=", "\"", "s", "k", "e", "l", "e", "t", "o", "n", " ", "h", "-", "3", "2", " ", "w", "-", "f", "u", "l", "l", "\"", ">", "<", "/", "d", "i", "v", ">" >>))
    @@ (<< "r", "e", "s", "p", "o", "n", "s", "i", "v", "e" >> :>
       DesignConcept(<< "R", "e", "s", "p", "o", "n", "s", "i", "v", "e", " ", "D", "e", "s", "i", "g", "n" >>,
                     << "A", "d", "a", "p", "t", "s", " ", "l", "a", "y", "o", "u", "t", " ", "t", "o", " ", "d", "i", "f", "f", "e", "r", "e", "n", "t", " ", "s", "c", "r", "e", "e", "n", " ", "s", "i", "z", "e", "s" >>,
                     << << "s", "m", ":" >>, << "m", "d", ":" >>, << "l", "g", ":" >>, << "x", "l", ":" >> >>,
                     << "U", "s", "e", " ", "r", "e", "s", "p", "o", "n", "s", "i", "v", "e", " ", "p", "r", "e", "f", "i", "x", "e", "s", " ", "f", "o", "r", " ", "b", "r", "e", "a", "k", "p", "o", "i", "n", "t", "-", "s", "p", "e", "c", "i", "f", "i", "c", " ", "s", "t", "y", "l", "e", "s" >>,
                     << "<", "d", "i", "v", " ", "c", "l", "a", "s", "s", "=", "\"", "g", "r", "i", "d", " ", "g", "r", "i", "d", "-", "c", "o", "l", "s", "-", "1", " ", "m", "d", ":", "g", "r", "i", "d", "-", "c", "o", "l", "s", "-", "2", " ", "l", "g", ":", "g", "r", "i", "d", "-", "c", "o", "l", "s", "-", "3", " ", "g", "a", "p", "-", "4", "\"", ">", ".", ".", ".", "<", "/", "d", "i", "v", ">" >>))

\* the keys of the concepts map
ExtConceptKeys == DOMAIN ExtConcepts

\* lib.rs DesignConcept::to_display (lines 126-135): the snippet stands in an
\* html code fence
ToDisplay(c) ==
    FmtFenced("## {}\n\n**Description:** {}\n\n**Classes:** {}\n\n**Suggestion:** {}\n\n{}",
              << c.name, c.description, Join(c.classes, CommaSep), c.suggestion >>,
              "html", Text(c.snippet))

\* lib.rs ConceptEngine::get_concept (lines 210-215)
ExtGetConcept(query) ==
    IF query = << >> THEN [ some |-> FALSE, val |-> << >> ]
    ELSE IF ToLowercase(query) \in DOMAIN ExtConcepts
    THEN [ some |-> TRUE, val |-> ExtConcepts[ToLowercase(query)] ]
    ELSE [ some |-> FALSE, val |-> << >> ]

\* lib.rs LayoutEngine::LAYOUTS
ExtLayouts ==
    << << "s", "a", "a", "s" >>,
       << "b", "l", "o", "g" >>,
       << "s", "o", "c", "i", "a", "l" >>,
       << "k", "a", "n", "b", "a", "n" >>,
       << "i", "n", "b", "o", "x" >>,
       << "p", "r", "o", "f", "i", "l", "e" >>,
       << "d", "o", "c", "s" >>,
       << "d", "a", "s", "h", "b", "o", "a", "r", "d" >>,
       << "a", "u", "t", "h" >>,
       << "s", "t", "o", "r", "e" >> >>

\* lib.rs LayoutEngine::generate, the arms of the match
ExtLayoutArms ==
    << [ layout |-> << "s", "a", "a", "s" >>, template |-> "saas" ],
       [ layout |-> << "b", "l", "o", "g" >>, template |-> "blog" ],
       [ layout |-> << "s", "o", "c", "i", "a", "l" >>, template |-> "social" ],
       [ layout |-> << "k", "a", "n", "b", "a", "n" >>, template |-> "kanban" ],
       [ layout |-> << "i", "n", "b", "o", "x" >>, template |-> "inbox" ],
       [ layout |-> << "p", "r", "o", "f", "i", "l", "e" >>, template |-> "profile" ],
       [ layout |-> << "d", "o", "c", "s" >>, template |-> "docs" ],
       [ layout |-> << "d", "a", "s", "h", "b", "o", "a", "r", "d" >>, template |-> "dashboard" ],
       [ layout |-> << "a", "u", "t", "h" >>, template |-> "auth" ],
       [ layout |-> << "s", "t", "o", "r", "e" >>, template |-> "store" ] >>

\* lib.rs ConceptEngine::list_concepts (lines 217-221)
ExtListConcepts == SortKeys(ExtConceptKeys)

\* lib.rs run_slash_command, "daisy-search" (lines 511-536)
DaisySearch(cache, args) ==
    LET typed == Join(args, Space)
        found == ExtSearch(cache, typed)
    IN  IF typed = << >> THEN CmdErr(Fmt("Please provide a search query", << >>))
        ELSE IF found = << >>
        THEN CmdOk(Fmt("No results found for '{}'", << typed >>), 0)
        ELSE CmdOk(Fmt("## Search Results for '{}'\n\n{}",
                       << typed,
                          Join([ i \in 1..Len(found) |->
                                   << "-", " ", "*", "*" >> \o found[i].key \o << "*", "*", " ", "(", "s", "c", "o", "r", "e", ":", " " >>
                                     \o DecStr(found[i].score) \o << ")" >> ],
                               << "\n" >>) >>),
                   1)

\* lib.rs run_slash_command, "daisy-doc" (lines 537-552)
DaisyDoc(cache, args) ==
    LET wanted == Join(args, Space)
        entry == ExtGetDoc(cache, wanted)
    IN  IF wanted = << >> THEN CmdErr(Fmt("Please provide a component name", << >>))
        ELSE IF entry.some THEN CmdOk(Fmt("{}", << entry.val >>), 1)
        ELSE CmdErr(Fmt("Documentation not found for '{}'", << wanted >>))

\* lib.rs run_slash_command, "daisy-concept" (lines 564-586): the text is
\* the display of the concept found
DaisyConcept(args) ==
    LET wanted == Join(args, Space)
        concept == ExtGetConcept(wanted)
    IN  IF wanted = << >> THEN CmdErr(Fmt("Please provide a concept name", << >>))
        ELSE IF concept.some
        THEN CmdOk(ToDisplay(concept.val), 1)
        ELSE CmdErr(Fmt("Concept '{}' not found. Available: {}",
                        << wanted, Join(ExtListConcepts, CommaSep) >>))

\* char::is_alphanumeric on the ASCII range
IsAlphanumeric(c) ==
    \/ \E i \in 1..Len(UpperChars) : UpperChars[i] = c
    \/ \E i \in 1..Len(LowerChars) : LowerChars[i] = c
    \/ c \in { "0", "1", "2", "3", "4", "5", "6", "7", "8", "9" }

\* the number of characters a sanitized title keeps
TitleCap == 100

\* lib.rs LayoutEngine::sanitize (lines 261-266): letters, digits, whitespace,
\* "-" and "_" are kept, of these the first 100
Sanitize(text) ==
    Take(Filter(text, { text[i] : i \in { j \in 1..Len(text) :
                                            \/ IsAlphanumeric(text[j])
                                            \/ IsWhitespace(text[j])
                                            \/ text[j] \in { "-", "_" } } }),
         TitleCap)

\* lib.rs LayoutEngine::generate (lines 244-259): the title is sanitized, the
\* template is the function named after the layout, saas for an unknown layout
ExtGenerate(layout, title) ==
    Html("layout",
         IF \E i \in 1..Len(ExtLayoutArms) : ExtLayoutArms[i].layout = layout
         THEN ExtLayoutArms[CHOOSE i \in 1..Len(ExtLayoutArms) : ExtLayoutArms[i].layout = layout].template
         ELSE "saas",
         Sanitize(title), << >>)

\* lib.rs run_slash_command, "daisy-layout" (lines 598-614): the layout is the
\* first argument, saas when there is none; the title is the other arguments
\* joined by blanks, "My App" when there are none
DaisyLayout(args) ==
    LET chosen == IF args = << >> THEN << "s", "a", "a", "s" >> ELSE args[1]
        heading == IF Len(args) > 1 THEN Join(Tail(args), Space)
                   ELSE << "M", "y", " ", "A", "p", "p" >>
    IN  CmdOk(FmtFenced("## Generated {} Layout\n\n{}", << chosen >>, "html",
                        ExtGenerate(chosen, heading)), 1)

\* the command names of lib.rs run_slash_command
CmdSearch == << "d", "a", "i", "s", "y", "-", "s", "e", "a", "r", "c", "h" >>
CmdDoc == << "d", "a", "i", "s", "y", "-", "d", "o", "c" >>
CmdComponents == << "d", "a", "i", "s", "y", "-", "c", "o", "m", "p", "o", "n", "e", "n", "t", "s" >>
CmdConcept == << "d", "a", "i", "s", "y", "-", "c", "o", "n", "c", "e", "p", "t" >>
CmdConcepts == << "d", "a", "i", "s", "y", "-", "c", "o", "n", "c", "e", "p", "t", "s" >>
CmdLayout == << "d", "a", "i", "s", "y", "-", "l", "a", "y", "o", "u", "t" >>
CmdLayouts == << "d", "a", "i", "s", "y", "-", "l", "a", "y", "o", "u", "t", "s" >>

\* lib.rs run_slash_command: the match on the command name; a name no arm
\* matches is named in the error
RunSlashCommand(cache, command, args) ==
    CASE command = CmdSearch -> DaisySearch(cache, args)
      [] command = CmdDoc -> DaisyDoc(cache, args)
      [] command = CmdComponents ->
           CmdOk(Fmt("## DaisyUI Components\n\n{}",
                     << Join(ExtListComponents(cache), CommaSep) >>), 1)
      [] command = CmdConcept -> DaisyConcept(args)
      [] command = CmdConcepts ->
           CmdOk(Fmt("## Design Concepts\n\n{}",
                     << Join(ExtListConcepts, CommaSep) >>), 1)
      [] command = CmdLayout -> DaisyLayout(args)
      [] command = CmdLayouts ->
           CmdOk(Fmt("## Available Layouts\n\n{}", << Join(ExtLayouts, CommaSep) >>), 1)
      [] OTHER -> CmdErr(Fmt("Unknown command: {}", << command >>))

(***************************************************************************)
(* Inputs                                                                  *)
(***************************************************************************)

\* The embedded documentation text (llms.txt) is not part of the sources; the
\* model runs over these texts.
CorpusScenario ==
    << "#", "#", "#", " ", "B", "t", "n", "\n", "U", "s", "e", " ", "t", "h", "e", " ", "b", "t", "n", " ", "c", "l", "a", "s", "s", ".", "\n", "#", "#", "#", " ", "C", "a", "r", "d", "\n", "U", "s", "e", " ", "t", "h", "e", " ", "c", "a", "r", "d", " ", "c", "l", "a", "s", "s", " ", "f", "o", "r", " ", "c", "o", "n", "t", "a", "i", "n", "e", "r", "s", ".", "\n" >>

CorpusEmpty == << >>

\* text before the first heading, a heading of blanks only, two headings with
\* the same key
CorpusOdd ==
    << "i", "n", "t", "r", "o", "\n", "#", "#", "#", " ", " ", "\n", "n", "o", " ", "n", "a", "m", "e", "\n", "#", "#", "#", " ", "B", "t", "n", "\n", "f", "i", "r", "s", "t", "\n", "#", "#", "#", " ", "b", "t", "n", "\n", "s", "e", "c", "o", "n", "d", " ", "c", "l", "a", "s", "s", "\n" >>

Corpora == { CorpusScenario, CorpusEmpty, CorpusOdd }

\* strings given as tool arguments
ArgStrings ==
    { << >>, << "B", "T", "N" >>, << "z", "z", "z" >>, << "c", "l", "a", "s", "s" >>, << "k", "a", "n", "b", "a", "n" >> }

Ids == { JAbsent, JNull, JNum(1), JStr("a") }

OtherMethods ==
    { "initialize", "notifications/initialized", "tools/list", "resources/list", "TOOLS/CALL" }

ToolNameValues ==
    { JAbsent, JNum(7), JStr("nope"), JStr("DAISYUI_SEARCH") }
      \cup { JStr(n) : n \in ListedTools }

\* the tools that read a documented argument, with the member they read
ArgTools ==
    { << "daisyui_idea_to_ui", "prompt" >>, << "daisyui_scaffold_layout", "layout" >>,
      << "daisyui_get_docs", "component" >>, << "daisyui_search", "query" >> }

ArgShapes(key) ==
    { ScalarArgs, ObjArgs(EmptyMap), ObjArgs([ k \in {key} |-> ArgNum ]) }
      \cup { ObjArgs([ k \in {key} |-> ArgStr(str) ]) : str \in ArgStrings }

\* prompts given to process_prompt
Prompts ==
    { << "d", "a", "s", "h", "b", "o", "a", "r", "d" >>,
      << "A", "d", "m", "i", "n", " ", "D", "a", "s", "h", "b", "o", "a", "r", "d" >>,
      << "a", "d", "m", "i", "n", " ", "p", "a", "n", "e", "l" >>,
      << "b", "l", "o", "g", " ", "d", "a", "s", "h", "b", "o", "a", "r", "d" >>,
      << "f", "e", "e", "d", " ", "b", "o", "a", "r", "d" >>,
      << "t", "a", "s", "k", " ", "m", "a", "i", "l" >>,
      << "m", "y", " ", "w", "i", "k", "i" >>,
      << "s", "t", "a", "r", "t", "u", "p", " ", "a", "d", "m", "i", "n" >>,
      << "a", "c", "c", "o", "u", "n", "t", " ", "d", "o", "c", "s" >>,
      << "i", "n", "b", "o", "x", " ", "s", "e", "t", "t", "i", "n", "g", "s" >> }

\* requests written as arrays
ArrayRequestLines ==
    { ArrayLine(Version, JStr("tools/list"), NullParams, JNum(1)),
      ArrayLine(Version, JStr("tools/call"), ObjParams(JStr("daisyui_search"), NoArgs), JNull) }

\* lines that decode to a request
RequestLines ==
    ArrayRequestLines \cup
    { ObjectLine(Version, JStr(m), AbsentParams, JNum(1)) : m \in OtherMethods }
      \cup { ObjectLine(Version, JStr("tools/list"), AbsentParams, i) : i \in Ids }
      \cup { ObjectLine(Version, JStr("tools/call"), p, i) :
               p \in { AbsentParams, NullParams, ScalarParams }, i \in { JAbsent, JNum(1) } }
      \cup { ObjectLine(Version, JStr("tools/call"), ObjParams(n, NoArgs), JNum(1)) :
               n \in ToolNameValues }
      \cup { ObjectLine(Version, JStr("tools/call"), ObjParams(JStr(n), NoArgs), JAbsent) :
               n \in { "nope", "daisyui_search" } }
      \cup UNION { { ObjectLine(Version, JStr("tools/call"), ObjParams(JStr(tk[1]), a), JNum(1)) :
                       a \in ArgShapes(tk[2]) } : tk \in ArgTools }
      \cup { ObjectLine(Version, JStr(m), ObjParams(JStr("daisyui_list_components"), NoArgs), JNum(1)) :
               m \in { "resources/list", "TOOLS/CALL" } }
      \cup { ObjectLine(Version, JStr("tools/call"),
                         ObjParams(JStr("daisyui_idea_to_ui"), ObjArgs([ k \in {"prompt"} |-> ArgStr(str) ])),
                         JNum(1)) :
               str \in Prompts }

\* lines that do not: texts that are no JSON (one with a blank before it, one
\* of a blank only), a JSON string, a string with a tab in it, objects without
\* jsonrpc or method, with a jsonrpc or a method that is no string, with the
\* method given twice, and an array of two values
UndecodableLines ==
    { TextLine(<< "n", "o", "t", " ", "j", "s", "o", "n" >>),
      TextLine(<< "\"", "a", "b", "c", "\"" >>),
      TextLine(<< "\"", WideBlanks[2] >>),
      TextLine(<< "h", "e", "l", "l", "o" >>),
      TextLine(<< "\"", "a", "\t", "b", "\"" >>),
      TextLine(<< " ", "x" >>),
      TextLine(<< " " >>),
      ObjectLine(JAbsent, JStr("tools/list"), AbsentParams, JNum(1)),
      ObjectLine(Version, JAbsent, AbsentParams, JNum(1)),
      ObjectLine(Version, JNum(3), AbsentParams, JNum(1)),
      ObjectLine(JNum(2), JStr("tools/list"), AbsentParams, JNum(1)),
      DupLine(Version, JStr("tools/list"), AbsentParams, JNum(1), "method"),
      ArrayLine(Version, JStr("tools/list"), AbsentParams, JAbsent) }

InputLines == { BlankLine } \cup UndecodableLines \cup RequestLines

\* slash commands with their arguments
CommandArgs ==
    { << >>, << << "b", "t", "n" >> >>, << << "z", "z", "z" >> >>, << << "c", "a", "r", "d" >>, << "c", "l", "a", "s", "s" >> >> }

\* names no arm of run_slash_command matches
UnknownCommands ==
    { << "d", "a", "i", "s", "y", "-", "n", "o", "p", "e" >>,
      << "D", "A", "I", "S", "Y", "-", "S", "E", "A", "R", "C", "H" >> }

\* arguments of daisy-layout: none, a layout, an unknown layout with a title
\* of two words that holds characters sanitize drops and a form feed, which
\* it keeps
LayoutArgs ==
    { << >>,
      << << "b", "l", "o", "g" >> >>,
      << << "z", "z", "z" >>, << "<", "b", ">", "M", "y" >>, << "S", "h", "\f", "o", "p", "_", "1", "!" >> >> }

Commands ==
    { << CmdSearch, a >> : a \in CommandArgs \ { << << "b", "t", "n" >> >> } }
      \cup { << CmdDoc, a >> : a \in CommandArgs \ { << << "c", "a", "r", "d" >>, << "c", "l", "a", "s", "s" >> >> } }
      \cup { << c, << >> >> : c \in { CmdComponents, CmdConcept, CmdConcepts, CmdLayouts } \cup UnknownCommands }
      \cup { << CmdConcept, a >> : a \in { << << "g", "r", "a", "d", "i", "e", "n", "t" >> >>, << << "z", "z", "z" >> >> } }
      \cup { << CmdLayout, a >> : a \in LayoutArgs }

\* the number of lines the input stream holds before its end
MaxLines == 2

(***************************************************************************)
(* The server loop and the extension as a state machine                    *)
(***************************************************************************)

VARIABLES
    corpus,     \* DAISYUI_DOCS_CONTENT
    docs,       \* main.rs main: docs, the components map of the server's DocsCache,
                \* empty before it is bound
    ext,        \* lib.rs DaisyDaysExtension.docs
    pc,         \* main.rs main: "start" before the banner is written, "loop" while
                \* the loop runs, "done" when the process has ended
    remaining,  \* lines of standard input not read yet
    line,       \* main.rs main: req_str, the line read last
    out,        \* the lines written to standard output for that line
    term,       \* why the process ended: "eof", "readerr" or "panic", "none" while it runs
    cmd,        \* lib.rs run_slash_command: the command run last
    cmdOut,     \* and its outcome
    api,        \* the DocsCache method called last, "none" before the first call
    arg,        \* its argument
    retDoc,     \* what that call returned if it was get_doc: ext for lib.rs, srv for main.rs
    retSearch,  \* what that call returned if it was search: ext for lib.rs, srv for main.rs
    retList     \* what that call returned if it was list_components

vars == << corpus, docs, ext, pc, remaining, line, out, term, cmd, cmdOut, api, arg, retDoc, retSearch, retList >>

NoLine ==
    [ kind |-> "none", raw |-> << >>, jsonrpc |-> JAbsent, method |-> JAbsent,
      params |-> AbsentParams, id |-> JAbsent, dup |-> "" ]

NoCmd == << << >>, << >> >>

\* main.rs main, lines 759-774: what one line makes the loop print
Respond(l, components) ==
    IF l.kind = "blank" THEN << >>
    ELSE IF Decodes(l)
    THEN << Serialize(HandleRequest(DecodeRequest(l), components)) >>
    ELSE << ParseErrorLine(l) >>

\* main.rs main, lines 758-775: no arm of the loop body breaks or returns,
\* but println! (lines 767, 772) panics when the write to standard output
\* fails, and the process ends in the loop body.  printed is what the body
\* prints, written tells whether standard output takes it.
AfterMessage(printed, written) ==
    IF printed # << >> /\ ~written THEN "done" ELSE "loop"

\* the variables of a program part that has not run
Idle ==
    /\ pc = "start"
    /\ line = NoLine
    /\ out = << >>
    /\ term = "none"
    /\ cmd = NoCmd
    /\ cmdOut = CmdOk(Fmt("", << >>), 0)
    /\ api = "none"
    /\ arg = << >>
    /\ retDoc = [ ext |-> None, srv |-> None ]
    /\ retSearch = [ ext |-> << >>, srv |-> << >> ]
    /\ retList = [ ext |-> << >>, srv |-> << >> ]

\* The server process as main is entered (main.rs 742), with the lines its
\* standard input holds, and the extension after DaisyDaysExtension::new
Init ==
    /\ corpus \in Corpora
    /\ docs = EmptyMap
    /\ ext = ExtLoad(corpus)
    /\ remaining \in 0..MaxLines
    /\ Idle

\* main.rs main, lines 744-752: eprintln! writes the banner to standard error
\* and panics when the write fails; the process then ends before docs is
\* bound and before a line is read.  written tells whether standard error
\* takes the banner; when it does, docs is loaded and the loop is entered.
Start ==
    /\ pc = "start"
    /\ \E written \in BOOLEAN :
         /\ pc' = IF written THEN "loop" ELSE "done"
         /\ term' = IF written THEN term ELSE "panic"
         /\ docs' = IF written THEN SrvLoad(corpus) ELSE docs
    /\ UNCHANGED << corpus, ext, remaining, line, out, cmd, cmdOut, api, arg, retDoc, retSearch, retList >>

\* a loop whose request handler empties the store it is given
ReadLineDrainingDocs ==
    /\ pc = "loop"
    /\ remaining > 0
    /\ \E l \in InputLines :
         \E lines \in { Respond(l, docs) }, taken \in BOOLEAN :
             /\ taken \/ lines # << >>
             /\ line' = l
             /\ out' = IF taken THEN lines ELSE << >>
             /\ pc' = AfterMessage(lines, taken)
             /\ term' = IF AfterMessage(lines, taken) = "done" THEN "panic" ELSE term
    /\ remaining' = remaining - 1
    /\ docs' = EmptyMap
    /\ UNCHANGED << corpus, ext, cmd, cmdOut, api, arg, retDoc, retSearch, retList >>

\* main.rs main, lines 756-775: read_line returns a line.  Standard output
\* takes what the loop prints for it, or the write fails: then nothing is
\* written and the panic of println! ends the process.  A line that makes the
\* loop print nothing cannot fail so.
ReadLine ==
    /\ pc = "loop"
    /\ remaining > 0
    /\ \E l \in InputLines :
         \E lines \in { Respond(l, docs) }, taken \in BOOLEAN :
             /\ taken \/ lines # << >>
             /\ line' = l
             /\ out' = IF taken THEN lines ELSE << >>
             /\ pc' = AfterMessage(lines, taken)
             /\ term' = IF AfterMessage(lines, taken) = "done" THEN "panic" ELSE term
    /\ remaining' = remaining - 1
    /\ UNCHANGED << corpus, docs, ext, cmd, cmdOut, api, arg, retDoc, retSearch, retList >>

\* main.rs main, line 757: read_line returns Ok(0)
ReadEof ==
    /\ pc = "loop"
    /\ remaining = 0
    /\ pc' = "done"
    /\ term' = "eof"
    /\ UNCHANGED << corpus, docs, ext, remaining, line, out, cmd, cmdOut, api, arg, retDoc, retSearch, retList >>

\* main.rs main, line 776: read_line returns Err
ReadFail ==
    /\ pc = "loop"
    /\ pc' = "done"
    /\ term' = "readerr"
    /\ UNCHANGED << corpus, docs, ext, remaining, line, out, cmd, cmdOut, api, arg, retDoc, retSearch, retList >>

\* lib.rs run_slash_command
RunCommand ==
    /\ \E c \in Commands :
         /\ cmd' = c
         /\ cmdOut' = RunSlashCommand(ext, c[1], c[2])
    /\ UNCHANGED << corpus, docs, ext, pc, remaining, line, out, term, api, arg, retDoc, retSearch, retList >>

\* The server: the dispatch loop of main.rs
Next == Start \/ ReadLine \/ ReadEof \/ ReadFail

Spec == Init /\ [][Next]_vars

\* The loop is sequential code and standard input is finite: a step that can
\* be taken is taken
FairSpec == Spec /\ WF_vars(Next)

\* The server and the extension, each with its own DocsCache of the same text
SystemNext == Next \/ RunCommand

SystemSpec == Init /\ [][SystemNext]_vars

(***************************************************************************)
(* The DocsCache methods called directly, over every text of a few lines   *)
(***************************************************************************)

\* the lines the texts are made of
CorpusLines ==
    { << "#", "#", "#", " ", "B", "t", "n" >>, << "#", "#", "#", " ", "b", "t", "n" >>, << "#", "#", "#", " ", " " >>,
      << "#", "#", "#", " " >>, << "U", "s", "e", " ", "t", "h", "e", " ", "b", "t", "n", " ", "c", "l", "a", "s", "s" >> }

\* the number of lines of a text
MaxCorpusLines == 3

RECURSIVE TextsOf(_)
TextsOf(n) ==
    IF n = 0 THEN { << >> }
    ELSE LET shorter == TextsOf(n - 1)
         IN  shorter \cup { t \o l \o << "\n" >> : t \in shorter, l \in CorpusLines }

\* an entry whose key contains "button" and one whose body only does
CorpusRanking ==
    << "#", "#", "#", " ", "b", "u", "t", "t", "o", "n", "\n", "x", "\n", "#", "#", "#", " ", "b", "t", "n", "\n", "t", "h", "e", " ", "b", "u", "t", "t", "o", "n", " ", "c", "l", "a", "s", "s", " ", "a", "p", "p", "e", "a", "r", "s", " ", "h", "e", "r", "e", "\n" >>

\* the number of entries of the long text whose key contains "kilo"
ManyEntries == 22

\* the heading "zzz", the heading "btn" twice, the first time above the line
\* "kilo", then headings "kilo a", "kilob", "kilo c", ...: every other key has
\* the word "kilo" standing alone
RECURSIVE CorpusMany(_)
CorpusMany(n) ==
    IF n = 0 THEN HeadingMarker \o << "z", "z", "z", "\n" >>
                  \o HeadingMarker \o << "b", "t", "n", "\n", "k", "i", "l", "o", "\n" >>
                  \o HeadingMarker \o << "b", "t", "n", "\n" >>
    ELSE CorpusMany(n - 1)
         \o HeadingMarker \o << "k", "i", "l", "o" >>
         \o (IF n % 2 = 1 THEN << " " >> ELSE << >>) \o << LowerChars[n], "\n" >>

\* a heading repeated without the word "class" its first body had, and an
\* entry that has the word
CorpusStale ==
    << "#", "#", "#", " ", "B", "t", "n", "\n", "t", "h", "e", " ", "c", "l", "a", "s", "s", "\n", "#", "#", "#", " ", "b", "t", "n", "\n", "#", "#", "#", " ", "C", "a", "r", "d", "\n", "c", "l", "a", "s", "s", "\n" >>

\* four entries that hold the word "class": one has it in the key, the other
\* three score the same for it.  The headings end with white space of several
\* kinds, and a form feed parts two words of a body.
CorpusTies ==
    << "#", "#", "#", " ", "c", "l", "a", "s", "s" >>
    \o << "\n", "#", "#", "#", " ", "c", "a", "r", "d", "\f", "\n", "t", "h", "e", "\f", "c", "l", "a", "s", "s", "\n", "#", "#", "#", " ", "b", "t", "n" >> \o << VerticalTab >>
    \o << "\n", "t", "h", "e", " ", "c", "l", "a", "s", "s", "\n", "#", "#", "#", " ", "a", "l", "e", "r", "t" >> \o << WideBlanks[2] >>
    \o << "\n", "t", "h", "e", " ", "c", "l", "a", "s", "s", "\n" >>

FixedCorpora ==
    { CorpusScenario, CorpusOdd, CorpusRanking, CorpusStale, CorpusTies, CorpusMany(ManyEntries) }

EngineCorpora == TextsOf(MaxCorpusLines) \cup FixedCorpora

\* names and queries given to the methods
ProbeStrings ==
    { << >>, << "b", "t", "n" >>, << "B", "t", "n" >>, << " ", "b", "t", "n", " " >>, << "z", "z", "z" >>, << "c", "l", "a", "s", "s" >>, << " " >>,
      << "c", "l", "a", "s", "s", " ", "c", "l", "a", "s", "s" >>, << "b", "u", "t", "t", "o", "n" >>, << "k", "i", "l", "o" >>, << "C", "l", "a", "s", "s" >>,
      << "c", "l", "a", "s", "s", "\f", "b", "u", "t", "t", "o", "n" >> }

\* the greatest number of keys whose every iteration order is drawn; of a
\* map with more keys the ascending and the descending order are drawn
MaxShuffled == 4

\* the orders in which scores.keys() yields the keys S
SearchOrders(S) ==
    IF Cardinality(S) <= MaxShuffled THEN HashOrders(S)
    ELSE { SortKeys(S), [ i \in 1..Cardinality(S) |-> SortKeys(S)[Cardinality(S) + 1 - i] ] }

EngineInit ==
    /\ corpus \in EngineCorpora
    /\ docs = SrvLoad(corpus)
    /\ ext = ExtLoad(corpus)
    /\ remaining = 0
    /\ Idle

\* DocsCache::get_doc of lib.rs (lines 64-69) and of main.rs (lines 48-50)
GetDoc ==
    /\ \E n \in ProbeStrings :
         /\ arg' = n
         /\ retDoc' = [ ext |-> ExtGetDoc(ext, n), srv |-> SrvGetDoc(docs, n) ]
    /\ api' = "get_doc"
    /\ retSearch' = [ ext |-> << >>, srv |-> << >> ]
    /\ retList' = [ ext |-> << >>, srv |-> << >> ]
    /\ UNCHANGED << corpus, docs, ext, pc, remaining, line, out, term, cmd, cmdOut >>

\* DocsCache::search of lib.rs (lines 71-109) and of main.rs (lines 52-62)
Search ==
    /\ \E probe \in ProbeStrings :
         \E order \in SearchOrders(ScoredKeys(ext, probe)) :
         /\ arg' = probe
         /\ retSearch' = [ ext |-> ExtSearchIn(ext, probe, order),
                           srv |-> SrvSearch(docs, probe) ]
    /\ api' = "search"
    /\ retDoc' = [ ext |-> None, srv |-> None ]
    /\ retList' = [ ext |-> << >>, srv |-> << >> ]
    /\ UNCHANGED << corpus, docs, ext, pc, remaining, line, out, term, cmd, cmdOut >>

\* DocsCache::list_components of lib.rs (lines 58-62) and of main.rs (lines 42-46)
ListComponents ==
    /\ api' = "list_components"
    /\ arg' = << >>
    /\ retList' = [ ext |-> ExtListComponents(ext), srv |-> SrvListComponents(docs) ]
    /\ retDoc' = [ ext |-> None, srv |-> None ]
    /\ retSearch' = [ ext |-> << >>, srv |-> << >> ]
    /\ UNCHANGED << corpus, docs, ext, pc, remaining, line, out, term, cmd, cmdOut >>

EngineNext == GetDoc \/ Search \/ ListComponents

EngineSpec == EngineInit /\ [][EngineNext]_vars

(***************************************************************************)
(* Properties                                                              *)
(***************************************************************************)

\* the request the line read last decoded to, and the envelope written for it
Req == DecodeRequest(line)
Envelope == out[1]

\* standard output took what the loop printed for the line read last
Written == term # "panic"

\* an envelope that carries an error of the given code and message, and no result
IsError(e, c, text) ==
    /\ "error" \in e.members
    /\ "result" \notin e.members
    /\ e.error.code = c
    /\ e.error.message.text = text

\* an envelope that carries a result and no error
IsResult(e) == "result" \in e.members /\ "error" \notin e.members

\* the line read last is a decoded "tools/call" with params
IsToolCall == Decodes(line) /\ Req.method = "tools/call" /\ Req.params.some

CalledTool == ParamName(Req.params.val)
CalledArgs == ParamArgs(Req.params.val)

\* C1: a decoded request whose answer standard output takes is answered by one
\* envelope, and every envelope written, the parse-error envelope too, has
\* exactly one of the members result and error.
C1_ExactlyOneOfResultError ==
    /\ (Decodes(line) /\ Written) => Len(out) = 1 /\ out[1].json
    /\ \A i \in 1..Len(out) :
         out[i].json => ("result" \in out[i].members) # ("error" \in out[i].members)

C1_Witness ==
    /\ IsToolCall
    /\ Written
    /\ CalledTool = "daisyui_get_docs"
    /\ IsResult(Envelope)

\* C2: the envelope written for a decoded request has the id of the request;
\* a request without id gets an envelope without id member.
C2_IdMirrored ==
    (Decodes(line) /\ Written) =>
        /\ Len(out) = 1
        /\ IF line.id.t = "absent"
           THEN "id" \notin Envelope.members
           ELSE "id" \in Envelope.members /\ Envelope.id = line.id

\* C3: a decoded request without id makes the loop write nothing.
C3_NotificationSilent ==
    (Decodes(line) /\ line.id.t = "absent") => out = << >>

\* the line read last is a "tools/call" naming a tool the catalog does not list
UnknownToolCall == IsToolCall /\ CalledTool \notin ListedTools

\* C4: a "tools/call" naming a tool that is not in the catalog is answered by
\* the error "Unknown tool" (code -32601), the loop is not ended by it, and the
\* line read after it is answered (as long as standard output takes what the
\* loop prints).
C4_UnknownTool ==
    /\ []((UnknownToolCall /\ Written) =>
            /\ Len(out) = 1
            /\ IsError(Envelope, -32601, "Unknown tool: ")
            /\ Envelope.error.message.arg = CalledTool
            /\ (term = "none" => pc = "loop"))
    /\ [][(UnknownToolCall /\ remaining' < remaining /\ line'.kind # "blank"
              /\ term' # "panic")
            => Len(out') = 1]_vars

C4_Witness ==
    /\ UnknownToolCall
    /\ Written
    /\ CalledTool = "nope"
    /\ IsError(Envelope, -32601, "Unknown tool: ")
    /\ pc = "loop"
    /\ remaining > 0

\* the methods the claims name as supported
SupportedMethods == { "initialize", "notifications/initialized", "tools/list", "tools/call" }

\* C5: a request whose method is none of initialize, notifications/initialized,
\* tools/list, tools/call is answered by the error "Method not found" (code
\* -32601) and by no result of a tool, whatever its params name.
C5_MethodNotFound ==
    (Decodes(line) /\ Req.method \notin SupportedMethods /\ Written) =>
        /\ Len(out) = 1
        /\ IsError(Envelope, -32601, "Method not found")
        /\ Envelope.result = NoResult

C5_Witness ==
    /\ Decodes(line)
    /\ Written
    /\ Req.method = "TOOLS/CALL"
    /\ Req.params.some
    /\ ParamName(Req.params.val) \in ListedTools
    /\ IsError(Envelope, -32601, "Method not found")

\* the member is absent, or the empty string
ArgMissingOrEmpty(args, key) ==
    \/ ~args.some
    \/ key \notin DOMAIN args.val
    \/ args.val[key] = ArgStr(<< >>)

RequiredArgMissing ==
    /\ IsToolCall
    /\ \E i \in 1..Len(ToolCatalog) :
         /\ ToolCatalog[i].name = CalledTool
         /\ \E r \in ToolCatalog[i].required : ArgMissingOrEmpty(CalledArgs, r)

\* C6: a "tools/call" of a listed tool with an argument the catalog declares
\* required missing or empty is answered by an error of code -32602 (invalid
\* params), never by a result.
C6_RequiredArgRejected ==
    (RequiredArgMissing /\ Written) =>
        /\ Len(out) = 1
        /\ "error" \in Envelope.members
        /\ "result" \notin Envelope.members
        /\ Envelope.error.code = -32602

\* the envelope that answers "tools/list", and the tool names in it
Discovery ==
    Serialize(HandleRequest([ method |-> "tools/list",
                              params |-> [ some |-> FALSE, val |-> AbsentParams ],
                              id     |-> NoValue ], docs))

DiscoveredNames == { Discovery.result.tools[i].name : i \in 1..Len(Discovery.result.tools) }

\* C7: the names in the answer to "tools/list" are exactly the names a
\* "tools/call" does not answer with the error "Unknown tool".
C7_DiscoveryMatchesInvocation ==
    (IsToolCall /\ Written) =>
        /\ Len(out) = 1
        /\ IsError(Envelope, -32601, "Unknown tool: ") <=> CalledTool \notin DiscoveredNames

C7_Witness ==
    /\ IsToolCall
    /\ Written
    /\ CalledTool = "daisyui_get_script"
    /\ CalledTool \in DiscoveredNames
    /\ IsResult(Envelope)

\* the line read last is one whose processing fails
Failed ==
    /\ line.kind \notin { "none", "blank" }
    /\ \/ ~Decodes(line)
       \/ Req.method \notin SupportedMethods
       \/ Req.method = "tools/call" /\ ~Req.params.some
       \/ UnknownToolCall

\* C8: a line whose processing fails (it does not decode, its method or its
\* tool is unknown, its params are missing) is answered by an error envelope
\* when standard output takes the answer; the loop ends only by end of input
\* or a failed read; and it does end.
C8_LoopSurvivesFailures ==
    /\ []((Failed /\ Written) => Len(out) = 1 /\ "error" \in Envelope.members
                                              /\ "result" \notin Envelope.members)
    /\ [](pc = "done" => term \in { "eof", "readerr" })
    /\ [](term = "none" => pc \in { "start", "loop" })
    /\ <>(pc = "done")

\* A lookup or search with a non-empty argument that matches no entry:
\* the name (lowercased) is no key of the server's store
DocMiss ==
    /\ IsToolCall
    /\ CalledTool = "daisyui_get_docs"
    /\ ArgOr(CalledArgs, "component", << >>) # << >>
    /\ ToLowercase(ArgOr(CalledArgs, "component", << >>)) \notin DOMAIN docs

\* no key and no lowercased body of the server's store contains the lowercased query
SearchMiss ==
    /\ IsToolCall
    /\ CalledTool = "daisyui_search"
    /\ ArgOr(CalledArgs, "query", << >>) # << >>
    /\ \A k \in DOMAIN docs :
         /\ ~Contains(k, ToLowercase(ArgOr(CalledArgs, "query", << >>)))
         /\ ~Contains(ToLowercase(docs[k]), ToLowercase(ArgOr(CalledArgs, "query", << >>)))

CmdText == Join(cmd[2], Space)

CmdSearchMiss ==
    /\ cmd[1] = CmdSearch
    /\ CmdText # << >>
    /\ \A k \in DOMAIN ext.components : Score(ext, ToLowercase(CmdText), k) = 0

CmdDocMiss ==
    /\ cmd[1] = CmdDoc
    /\ CmdText # << >>
    /\ ToLowercase(CmdText) \notin DOMAIN ext.components

\* C9: a lookup or search with a non-empty argument that matches no
\* entry is answered as a success by the tools daisyui_get_docs and
\* daisyui_search and by the commands daisy-doc and daisy-search.
C9_MissIsSuccess ==
    /\ (DocMiss /\ Written) => Len(out) = 1 /\ IsResult(Envelope)
    /\ (SearchMiss /\ Written) => Len(out) = 1 /\ IsResult(Envelope)
    /\ CmdSearchMiss => cmdOut.ok
    /\ CmdDocMiss => cmdOut.ok

\* C10: get_doc of the empty name does not return what a clean miss returns
\* (None), in the extension and in the server.
C10_EmptyNameIsNotAMiss ==
    (api = "get_doc" /\ arg = << >>) =>
        /\ retDoc.ext # None
        /\ retDoc.srv # None

\* C11: get_doc of a name that equals a stored key after trimming and
\* lowercasing returns the entry get_doc returns for that key, in the
\* extension and in the server.
C11_GetDocNormalizesName ==
    (api = "get_doc" /\ ToLowercase(Trim(arg)) \in DOMAIN ext.components) =>
        /\ retDoc.ext = ExtGetDoc(ext, ToLowercase(Trim(arg)))
        /\ retDoc.srv = SrvGetDoc(docs, ToLowercase(Trim(arg)))

\* the arguments object { "query": q }
QueryArgs(q) == [ some |-> TRUE, val |-> [ x \in {"query"} |-> ArgStr(q) ] ]

\* C12: search of the empty query returns no result, whatever the store
\* holds, in the extension and in the server, and the tool daisyui_search then
\* reports zero matches.
C12_EmptyQueryFindsNothing ==
    (api = "search" /\ arg = << >>) =>
        /\ retSearch.ext = << >>
        /\ retSearch.srv = << >>
        /\ SearchTool(QueryArgs(arg), docs) = Ok(ResContent(Text(FoundPrefix \o << "0" >>)))

\* the query as search compares it, and the results of the extension's search
Lowered == ToLowercase(arg)
Results == retSearch.ext

\* the whitespace-separated terms of a text, each counted once
DistinctTerms(text) == { SplitWhitespace(text)[i] : i \in 1..Len(SplitWhitespace(text)) }

\* 100 for the key, 10 for the body, 5 for every distinct term indexed for the key
DistinctTermScore(k) ==
    (IF Contains(k, Lowered) THEN 100 ELSE 0)
    + (IF Contains(ToLowercase(ext.components[k]), Lowered) THEN 10 ELSE 0)
    + 5 * Cardinality({ t \in DistinctTerms(Lowered) :
                          t \in DOMAIN ext.index /\ InSeq(k, ext.index[t]) })

\* C13: for a non-empty query the score of every result is 100 if the key
\* contains the lowercased query, plus 10 if the lowercased body contains it,
\* plus 5 for every DISTINCT term of the query whose index list holds the key:
\* a term repeated in the query counts once.
C13_ScoreCountsDistinctTerms ==
    (api = "search" /\ arg # << >>) =>
        \A i \in 1..Len(Results) : Results[i].score = DistinctTermScore(Results[i].key)

\* C14: the results of search are ordered by score descending, and results of
\* equal score by key ascending.
C14_RankedByScoreThenKey ==
    api = "search" =>
        \A i \in 1..(Len(Results) - 1) :
            \/ Results[i].score > Results[i + 1].score
            \/ /\ Results[i].score = Results[i + 1].score
               /\ StrLess(Results[i].key, Results[i + 1].key)

C14_Witness ==
    /\ api = "search"
    /\ \E i \in 1..(Len(Results) - 1) : Results[i].score > Results[i + 1].score
    /\ \E i \in 1..(Len(Results) - 1) :
         /\ Results[i].score = Results[i + 1].score
         /\ StrLess(Results[i].key, Results[i + 1].key)

\* the entries the query gives a positive score, and the keys returned
Positive == { k \in DOMAIN ext.components : Score(ext, Lowered, k) > 0 }
ReturnedKeys == { Results[i].key : i \in 1..Len(Results) }

\* result r ranks before the entry of key k
Outranks(r, k) ==
    \/ r.score > Score(ext, Lowered, k)
    \/ r.score = Score(ext, Lowered, k) /\ StrLess(r.key, k)

\* C15: search returns the first min(20, n) of the n entries of positive
\* score: no entry of score 0, never more than 20, each entry once, and every
\* positive entry left out ranks behind every result.
C15_TopTwentyOfPositive ==
    (api = "search" /\ arg # << >>) =>
        /\ Len(Results) = (IF Cardinality(Positive) < 20 THEN Cardinality(Positive) ELSE 20)
        /\ Cardinality(ReturnedKeys) = Len(Results)
        /\ ReturnedKeys \subseteq Positive
        /\ \A i \in 1..Len(Results) : Results[i].score = Score(ext, Lowered, Results[i].key)
        /\ \A k \in Positive \ ReturnedKeys : \A i \in 1..Len(Results) : Outranks(Results[i], k)

C15_Witness ==
    /\ api = "search"
    /\ arg # << >>
    /\ Cardinality(Positive) > 20
    /\ Len(Results) = 20
    /\ Results[1].score > Results[20].score
    /\ \E k \in DOMAIN ext.components : k \notin Positive

\* C16: when the key of one entry contains the query and the key of another
\* does not, search ranks the first above the second: wherever the second is
\* returned, the first is returned before it.
C16_KeyMatchRanksFirst ==
    (api = "search" /\ arg # << >>) =>
        \A a, b \in DOMAIN ext.components :
            (Contains(a, Lowered) /\ ~Contains(b, Lowered)) =>
                \A j \in 1..Len(Results) :
                    Results[j].key = b => \E i \in 1..(j - 1) : Results[i].key = a

C16_Witness ==
    /\ api = "search"
    /\ corpus = CorpusRanking
    /\ arg = << "b", "u", "t", "t", "o", "n" >>
    /\ Len(Results) = 2
    /\ Results[1].key = << "b", "u", "t", "t", "o", "n" >>
    /\ Results[2].key = << "b", "t", "n" >>
    /\ Results[1].score > 100
    /\ Results[2].score = 15

\* the two entries of the scenario
BtnBody == << "#", "#", "#", " ", "B", "t", "n", "\n", "U", "s", "e", " ", "t", "h", "e", " ", "b", "t", "n", " ", "c", "l", "a", "s", "s", "." >>
CardBody == << "#", "#", "#", " ", "C", "a", "r", "d", "\n", "U", "s", "e", " ", "t", "h", "e", " ", "c", "a", "r", "d", " ", "c", "l", "a", "s", "s", " ", "f", "o", "r", " ", "c", "o", "n", "t", "a", "i", "n", "e", "r", "s", "." >>

\* C17 as stated: for the corpus of the scenario get_doc("btn") returns the
\* two lines of the entry Btn, and search("class") returns both entries with
\* score 15 each, btn before card.
C17_ScenarioBothFifteen ==
    corpus = CorpusScenario =>
        /\ (api = "get_doc" /\ arg = << "b", "t", "n" >>) => retDoc.ext = Some(BtnBody)
        /\ (api = "search" /\ arg = << "c", "l", "a", "s", "s" >>) =>
              Results = << [ key |-> << "b", "t", "n" >>, body |-> BtnBody, score |-> 15 ],
                           [ key |-> << "c", "a", "r", "d" >>, body |-> CardBody, score |-> 15 ] >>

\* C17, amended: get_doc("btn") returns the two lines of the entry Btn, and
\* search("class") returns both entries, card first with score 15 (body and
\* indexed token "class") and btn second with score 10 (body only: its token
\* is "class." with the full stop).
C17_ScenarioCardFirst ==
    corpus = CorpusScenario =>
        /\ (api = "get_doc" /\ arg = << "b", "t", "n" >>) =>
              /\ retDoc.ext = Some(BtnBody)
              /\ retDoc.srv = Some(BtnBody)
        /\ (api = "search" /\ arg = << "c", "l", "a", "s", "s" >>) =>
              /\ Results = << [ key |-> << "c", "a", "r", "d" >>, body |-> CardBody, score |-> 15 ],
                              [ key |-> << "b", "t", "n" >>, body |-> BtnBody, score |-> 10 ] >>
              /\ ext.index[<< "c", "l", "a", "s", "s" >>] = << << "c", "a", "r", "d" >> >>
              /\ ext.index[<< "c", "l", "a", "s", "s", "." >>] = << << "b", "t", "n" >> >>

C17_Witness ==
    /\ corpus = CorpusScenario
    /\ api = "search"
    /\ arg = << "c", "l", "a", "s", "s" >>
    /\ Len(Results) = 2
    /\ Results[1].key = << "c", "a", "r", "d" >>
    /\ Results[2].score = 10

\* the whitespace-delimited words of a text, lowercased
LowerWords(text) == { ToLowercase(w) : w \in DistinctTerms(text) }

\* C18: every token of the index is a lowercased whitespace-delimited word of
\* the corpus with more than 4 characters.
C18_IndexedWordsLongerThanFour ==
    \A t \in DOMAIN ext.index : t \in LowerWords(corpus) /\ Len(t) > 4

\* The lines of the corpus and its headings, the lines that start with "### "
CorpusRows == Lines(corpus)
IsHeading(i) == StripPrefix(CorpusRows[i], HeadingMarker)[1]
KeyOf(i) == ToLowercase(Trim(StripPrefix(CorpusRows[i], HeadingMarker)[2]))

\* the lines from heading i up to the next heading, trimmed as a whole
BlockEnd(i) ==
    CHOOSE e \in i..Len(CorpusRows) :
        /\ \A j \in (i + 1)..e : ~IsHeading(j)
        /\ (e = Len(CorpusRows) \/ IsHeading(e + 1))
BodyOf(i) == Trim(Join(SubSeq(CorpusRows, i, BlockEnd(i)), << "\n" >>))

\* the headings, the last heading of a key, and the keys that several
\* headings normalize to
Headings == { i \in 1..Len(CorpusRows) : IsHeading(i) }
LastOfHeadings(k) == CHOOSE i \in Headings : KeyOf(i) = k /\ \A j \in Headings : KeyOf(j) = k => j <= i
RepeatedKeys ==
    { k \in { KeyOf(i) : i \in Headings } : Cardinality({ i \in Headings : KeyOf(i) = k }) > 1 }

\* C19: when several headings of the corpus normalize to the same key, the
\* body stored under the key is the body of the last of them, in the
\* extension and in the server (a store holds one body for a key).
C19_LastHeadingWins ==
    api = "none" =>
        \A k \in RepeatedKeys :
            /\ k \in DOMAIN ext.components => ext.components[k] = BodyOf(LastOfHeadings(k))
            /\ k \in DOMAIN docs => docs[k] = BodyOf(LastOfHeadings(k))

\* C20: every key listed for a token of the index is a key of the store, and
\* the token is a lowercased whitespace-delimited word of the body stored for
\* that key.
C20_IndexMatchesEntries ==
    \A t \in DOMAIN ext.index :
        \A i \in 1..Len(ext.index[t]) :
            /\ ext.index[t][i] \in DOMAIN ext.components
            /\ t \in LowerWords(ext.components[ext.index[t][i]])

\* how often the index list of token t names key k
Occurrences(t, k) ==
    IF t \in DOMAIN ext.index
    THEN Cardinality({ i \in 1..Len(ext.index[t]) : ext.index[t][i] = k })
    ELSE 0

\* 100 for the key and 10 for the body, as search gives them for the query
KeyAndBodyScore(k) ==
    (IF Contains(k, Lowered) THEN 100 ELSE 0)
    + (IF Contains(ToLowercase(ext.components[k]), Lowered) THEN 10 ELSE 0)

\* C21: a query of one term adds 5 to the score of an entry the index list of
\* the term names, once, however often the list names it.
C21_MembershipNotCount ==
    (api = "search" /\ SplitWhitespace(Lowered) = << Lowered >>) =>
        \A i \in 1..Len(Results) :
            Results[i].score = KeyAndBodyScore(Results[i].key)
                               + (IF Occurrences(Lowered, Results[i].key) > 0 THEN 5 ELSE 0)

C21_Witness ==
    /\ api = "search"
    /\ SplitWhitespace(Lowered) = << Lowered >>
    /\ \E i \in 1..Len(Results) :
         /\ Occurrences(Lowered, Results[i].key) > 1
         /\ Results[i].score = 15

\* C23: two calls of search with the same query on the same store return the
\* same keys in the same order with the same scores, whatever order the hash
\* maps are iterated in (every order of a scores map of up to MaxShuffled
\* keys is drawn).
C23_SearchIsDeterministic ==
    [][(api = "search" /\ api' = "search" /\ arg' = arg) => retSearch'.ext = retSearch.ext]_vars

\* a search whose scores map has four keys, three of them with the same
\* score, so that each of its 24 orders was drawn
C23_Witness ==
    /\ api = "search"
    /\ Cardinality(Positive) = MaxShuffled
    /\ Cardinality(HashOrders(Positive)) = 24
    /\ \E i \in 1..(Len(Results) - 2) :
         /\ Results[i].score = Results[i + 1].score
         /\ Results[i].score = Results[i + 2].score


\* C22: list_components of either DocsCache returns the keys of its parsed
\* store in strictly ascending byte order (so each key once), and the strings
\* returned are exactly the keys of the store
C22_ListIsSortedKeySet ==
    api = "list_components" =>
        /\ \A i \in 1..(Len(retList.ext) - 1) : StrLess(retList.ext[i], retList.ext[i + 1])
        /\ { retList.ext[i] : i \in 1..Len(retList.ext) } = DOMAIN ext.components
        /\ \A i \in 1..(Len(retList.srv) - 1) : StrLess(retList.srv[i], retList.srv[i + 1])
        /\ { retList.srv[i] : i \in 1..Len(retList.srv) } = DOMAIN docs

\* a store of more than twenty keys was listed
C22_Witness ==
    /\ api = "list_components"
    /\ Len(retList.ext) > 20
    /\ Len(retList.srv) > 20


\* C24: the stores are the parse of the embedded text before a line is read
\* (the server's from the moment the loop is entered), and no step of the
\* server loop (whatever the method or tool of the request) and no slash
\* command (list, lookup, search) changes the text, the entries or the term
\* index
C24_StoreNeverChanges ==
    /\ [](ext = ExtLoad(corpus) /\ (pc = "loop" => docs = SrvLoad(corpus)))
    /\ [][corpus' = corpus /\ ext' = ext /\ (pc # "start" => docs' = docs)]_vars

\* a search request was answered and a search command was run over a store
\* that has entries
C24_Witness ==
    /\ line.kind = "object"
    /\ line.method = JStr("tools/call")
    /\ line.params.name = JStr("daisyui_search")
    /\ out # << >>
    /\ cmd[1] = CmdSearch
    /\ cmd[2] # << >>
    /\ DOMAIN docs # {}
    /\ DOMAIN ext.index # {}

\* C25: every line that starts with "### " starts an entry whose key is the
\* trimmed, lowercased rest of the line; the body stored for the key is the
\* trimmed text from the heading line (the last one of that key) up to the
\* next heading or the end; lines before the first heading are in no body.
C25_EveryHeadingStartsEntry ==
    api = "none" =>
        /\ DOMAIN ext.components = { KeyOf(i) : i \in Headings }
        /\ DOMAIN docs = { KeyOf(i) : i \in Headings }
        /\ \A k \in DOMAIN ext.components \cap { KeyOf(i) : i \in Headings } :
             /\ ext.components[k] = BodyOf(LastOfHeadings(k))
             /\ docs[k] = BodyOf(LastOfHeadings(k))

\* the id member written for a decoded line: the id of the request, null when
\* the request has none
MirroredId(l) == IF l.id.t = "absent" THEN JNull ELSE l.id

\* C26: what stands on standard output for the line read last is nothing when
\* the line is blank and, when standard output takes what the loop prints,
\* exactly one line otherwise: a result envelope or an error envelope carrying
\* the id of that line when it decodes, the parse error envelope with id null
\* when it does not.  The line is answered in the step that reads it, so no
\* answer is pending when the next line is read.
C26_OneOutputPerLine ==
    /\ line.kind \in {"none", "blank"} => out = << >>
    /\ (line.kind \in {"text", "object", "array"} /\ Written) =>
         /\ Len(out) = 1
         /\ out[1].members \in { {"jsonrpc", "result", "id"}, {"jsonrpc", "error", "id"} }
         /\ Decodes(line) => out[1].id = MirroredId(line)
         /\ ~Decodes(line) => /\ out[1].members = {"jsonrpc", "error", "id"}
                              /\ out[1].error.code = -32700
                              /\ out[1].id = JNull

\* C27: the load of the extension and the load of the server build the same
\* map from key to body out of every text, so list_components returns the
\* same list in both and get_doc of a name that is not empty returns the same
\* answer in both.
C27_ParsersAgree ==
    /\ ext.components = docs
    /\ api = "list_components" => retList.ext = retList.srv
    /\ (api = "get_doc" /\ arg # << >>) => retDoc.ext = retDoc.srv

\* a store of several entries, one of them under the key "", was asked for a
\* name it holds
C27_Witness ==
    /\ api = "get_doc"
    /\ arg # << >>
    /\ retDoc.srv.some
    /\ retDoc.ext.some
    /\ << >> \in DOMAIN docs
    /\ Cardinality(DOMAIN docs) > 1

\* C28: get_doc of a key that list_components returns gives the body stored
\* for the key, in the extension and in the server.
C28_ListedKeyIsFound ==
    (api = "get_doc" /\ arg \in DOMAIN ext.components /\ arg \in DOMAIN docs) =>
        /\ retDoc.ext = Some(ext.components[arg])
        /\ retDoc.srv = Some(docs[arg])

\* the groups in the order of the claim, each with the template of its layout
ClaimedGroups ==
    << << << "b", "l", "o", "g" >>, "blog_layout" >>,
       << << "s", "o", "c", "i", "a", "l" >>, "social_feed" >>,
       << << "k", "a", "n", "b", "a", "n" >>, "kanban_board" >>,
       << << "i", "n", "b", "o", "x" >>, "inbox_layout" >>,
       << << "p", "r", "o", "f", "i", "l", "e" >>, "settings_profile" >>,
       << << "d", "o", "c", "s" >>, "docs_layout" >>,
       << << "s", "a", "a", "s" >>, "saas_landing" >>,
       << << "d", "a", "s", "h", "b", "o", "a", "r", "d" >>, "dashboard" >> >>

\* the request read last calls the tool daisyui_idea_to_ui
IdeaCall ==
    /\ Decodes(line)
    /\ line.method = JStr("tools/call")
    /\ line.params.t = "obj"
    /\ line.params.name = JStr("daisyui_idea_to_ui")

\* the prompt of that call, lowercased: the empty prompt when the call gives none
LoweredPrompt == ToLowercase(ArgOr(ParamArgs(line.params), "prompt", << >>))

\* the text of the answer
RetUi == out[1].result.content

\* group i is the first group with a keyword in the lowercased prompt
FirstMatch(i) ==
    /\ GroupMatches(PromptGroups[i], LoweredPrompt)
    /\ \A j \in 1..(i - 1) : ~GroupMatches(PromptGroups[j], LoweredPrompt)

\* C30: process_prompt renders the layout of the first group, in the order
\* blog, social, kanban, inbox, profile, docs, saas, dashboard, that has a
\* keyword in the lowercased prompt, and saas when no group has one; a prompt
\* that contains "dashboard" and no keyword of blog or social gets the kanban
\* layout, and the dashboard layout is rendered only for prompts with "admin".
C30_FirstGroupWins ==
    (IdeaCall /\ Written) =>
        /\ out[1].members = {"jsonrpc", "result", "id"}
        /\ RetUi.gen = "layout"
        /\ RetUi.s = GeneratedUiTitle
        /\ Len(PromptGroups) = Len(ClaimedGroups)
        /\ \A i \in 1..Len(ClaimedGroups) :
             /\ PromptGroups[i].layout = ClaimedGroups[i][1]
             /\ FirstMatch(i) => RetUi.tag = ClaimedGroups[i][2]
        /\ (\A i \in 1..Len(ClaimedGroups) : ~FirstMatch(i)) => RetUi.tag = "saas_landing"
        /\ ( /\ Contains(LoweredPrompt, << "d", "a", "s", "h", "b", "o", "a", "r", "d" >>)
             /\ ~GroupMatches(PromptGroups[1], LoweredPrompt)
             /\ ~GroupMatches(PromptGroups[2], LoweredPrompt) )
           => RetUi.tag = "kanban_board"
        /\ RetUi.tag = "dashboard" => Contains(LoweredPrompt, << "a", "d", "m", "i", "n" >>)

\* a prompt with "Dashboard" capitalized and "admin" got the kanban layout
C30_Witness ==
    /\ IdeaCall
    /\ Written
    /\ Contains(LoweredPrompt, << "d", "a", "s", "h", "b", "o", "a", "r", "d" >>)
    /\ ~Contains(ArgOr(ParamArgs(line.params), "prompt", << >>), << "d", "a", "s", "h", "b", "o", "a", "r", "d" >>)
    /\ Contains(LoweredPrompt, << "a", "d", "m", "i", "n" >>)
    /\ RetUi.tag = "kanban_board"

\* the entries whose key or lowercased body contains the lowercased query, the
\* keys the server's search returned, and the entries the scored search counts
\* through the term index only
SubstringMatches ==
    { k \in DOMAIN docs : Contains(k, Lowered) \/ Contains(ToLowercase(docs[k]), Lowered) }
SrvKeys == { retSearch.srv[i].key : i \in 1..Len(retSearch.srv) }
TermOnly == Positive \ SubstringMatches

\* the server's search returns exactly the substring matches with their
\* bodies, by key ascending, all of them
SrvReturnsSubstringMatches ==
    /\ SrvKeys = SubstringMatches
    /\ Len(retSearch.srv) = Cardinality(SubstringMatches)
    /\ \A i \in 1..Len(retSearch.srv) : retSearch.srv[i].body = docs[retSearch.srv[i].key]
    /\ \A i \in 1..(Len(retSearch.srv) - 1) : StrLess(retSearch.srv[i].key, retSearch.srv[i + 1].key)

\* every substring match scores 10 or more in the scored search
SubstringMatchesScoreTen ==
    \A k \in SubstringMatches :
        k \in DOMAIN ext.components /\ Score(ext, Lowered, k) >= 10

\* C29 as stated: for a non-empty query the server's search returns exactly
\* the substring matches, by key and uncapped, each of them scores at least 10
\* in the scored search, and an entry matched through the term index only has
\* a score that is a multiple of 5 below 10, is returned by the scored search
\* and is not returned by the server's search.
C29_TermOnlyScoresFiveAndIsReturned ==
    (api = "search" /\ arg # << >>) =>
        /\ SrvReturnsSubstringMatches
        /\ SubstringMatchesScoreTen
        /\ \A k \in TermOnly :
             /\ Score(ext, Lowered, k) % 5 = 0
             /\ Score(ext, Lowered, k) < 10
             /\ k \in ReturnedKeys
             /\ k \notin SrvKeys

\* the distinct terms of the query whose index list names the key
NamingTerms(k) ==
    { t \in DistinctTerms(Lowered) : t \in DOMAIN ext.index /\ InSeq(k, ext.index[t]) }

\* C29 amended: the same, but an entry matched through the term index only
\* has a score that is a positive multiple of 5, at least 5 for every distinct
\* term of the query whose index list names it (10 or more for a query of
\* several such terms), and the scored search returns it unless 20 entries
\* rank before it.
C29_TermOnlyReturnedWithinCap ==
    (api = "search" /\ arg # << >>) =>
        /\ SrvReturnsSubstringMatches
        /\ SubstringMatchesScoreTen
        /\ \A k \in TermOnly :
             /\ Score(ext, Lowered, k) % 5 = 0
             /\ Score(ext, Lowered, k) >= 5 * Cardinality(NamingTerms(k))
             /\ NamingTerms(k) # {}
             /\ k \notin SrvKeys
             /\ \/ k \in ReturnedKeys
                \/ /\ Len(Results) = ResultCap
                   /\ \A i \in 1..Len(Results) : Outranks(Results[i], k)

\* the scored search returned an entry that the server's search did not: two
\* different terms of the query are words of its body, the query as a whole
\* is in neither its key nor its body, and its score is 10
C29_Witness ==
    /\ api = "search"
    /\ arg # << >>
    /\ \E k \in TermOnly \cap ReturnedKeys :
         /\ Cardinality(NamingTerms(k)) = 2
         /\ NamingTerms(k) \subseteq LowerWords(ext.components[k])
         /\ Score(ext, Lowered, k) = 10
         /\ k \notin SrvKeys

============================================================================
